---------------------------- MODULE Spec2Model ----------------------------
(***************************************************************************)
(* Household budgeting application (gestor-de-gastos-domesticos).          *)
(*                                                                         *)
(* The state machines of this module share its variables:                  *)
(*   Spec          the expense ledger: App.data, the ExpenseEntry sheet    *)
(*                 with its debounced auto-save, the transaction modal,    *)
(*                 quick-add, smart import and the cleanup of the year     *)
(*                 settings;                                               *)
(*   SpecIncome    the IncomeEntry sheet with its debounced auto-save of   *)
(*                 the rows and of the opening balance;                    *)
(*   SpecProj      the Dashboard: monthly aggregates, averages, standard   *)
(*                 deviation, the 12-point projection, the wealth figures; *)
(*   SpecRates     the Dashboard: the calls of the inflation service made  *)
(*                 when the year changes, and their answers;               *)
(*   SpecSim       the Dashboard: the future simulator;                    *)
(*   SpecCatalog   the catalog mode of the transaction modal, the price    *)
(*                 history of a product and the analysis report;           *)
(*   SpecProducts  the product form of the catalog page and the quick      *)
(*                 creation of a product from the transaction modal;       *)
(*   SpecInflation the calculation helpers of the inflation service.       *)
(* JavaScript numbers are modelled as exact integers / rationals.          *)
(***************************************************************************)
EXTENDS Integers, Sequences, FiniteSets, TLC

VARIABLES
    \* ---- expense ledger (App + ExpenseEntry + modals)
    data,                \* App: ExpenseItem[] of every year
    localData,           \* ExpenseEntry: local copy of the selected year's rows
    saveStatus,          \* ExpenseEntry: 'saved' | 'saving'
    autoSaveTimer,       \* ExpenseEntry: payload of the pending setTimeout, or NoTimer
    editingTransactions, \* ExpenseEntry: cell open in the transaction modal, or NoCell
    yearConfigs,         \* App: YearConfig[] as a map year -> startMonthIndex
    selectedYear,        \* App: the year shown
    parsedItems,         \* SmartImportModal: items of the preview step
    removedCount,        \* SmartImportModal: items filtered out by handleAnalyze
    importStep,          \* SmartImportModal: 'input' | 'preview'
    defaultMonth,        \* SmartImportModal: month used when the text names none
    nextId,              \* stands for Date.now(): the next fresh id
    ops,                 \* number of ledger operations performed so far
    \* ---- income sheet (App + IncomeEntry)
    incomeData,          \* App: IncomeItem[] of every year
    globalBaseBalance,   \* App: the stored base balance
    incLocalData,        \* IncomeEntry: local copy of the selected year's rows
    localSavings,        \* IncomeEntry: text of the opening-balance input
    incSaveStatus,       \* IncomeEntry: 'saved' | 'saving'
    incTimer,            \* IncomeEntry: arguments of the pending setTimeout, or NoTimer
    \* ---- Dashboard
    inflationRates,      \* Dashboard: the monthly rates loaded so far ([] before)
    inflationRequests,   \* Dashboard: calls of getMonthlyInflation not yet resolved, by year
    simMonth,            \* Dashboard: target month of the simulator
    simYear,             \* Dashboard: target year of the simulator
    enableInvestment,    \* Dashboard: the investment switch
    annualReturnRate,    \* Dashboard: annual return rate typed or preset, in percent
    \* ---- product catalog
    products,            \* App: Product[]
    viewMode,            \* ProductManager: 'manage' | 'analysis' ('manage' at every mount)
    productForm,         \* ProductManager: isAdding, editingId, name, price, tagId
    \* ---- inflation helpers called on their own
    calc,                \* the arguments and the result of the last call
    \* ---- clock
    currentMonthIndex    \* new Date().getMonth()

ledgerVars == <<data, localData, saveStatus, autoSaveTimer, editingTransactions,
                yearConfigs, selectedYear, parsedItems, removedCount, importStep,
                defaultMonth, nextId, ops>>

incomeVars == <<incomeData, globalBaseBalance, incLocalData, localSavings, incSaveStatus,
                incTimer>>

simVars == <<simMonth, simYear, enableInvestment, annualReturnRate>>

vars == <<ledgerVars, incomeVars, inflationRates, inflationRequests, simVars, products,
          viewMode, productForm, calc, currentMonthIndex>>

-----------------------------------------------------------------------------
(* Bounds of the model *)

\* Number of ledger operations explored from the initial ledger.
MaxOps == 3

\* Years after the current one among the target years of the simulator (of the ten the
\* select offers).
MaxSimYearsAhead == 1

\* Number of items the AI parser returns for one analysed text.
MaxParsed == 1

\* The years the chevrons reach, on either side of the current year
MaxYearSpan == 1

-----------------------------------------------------------------------------
(* Program constants *)

\* new Date().getFullYear(): the year App starts on
CurrentYear == 2025

\* Array(12).fill(0): the series has one entry per month.
MonthsPerYear == 12

STANDARD_CATEGORIES == {"Servicios Basicos", "Impuestos / Vivienda", "Salud", "Gastos Variables"}

CATEGORIES_WITH_BREAKDOWN ==
    {"Gastos Variables", "Supermercado", "Alimentacion", "Farmacia", "Feria"}

NoTimer == [pending |-> FALSE]

NoCell == [open |-> FALSE]

\* No helper of the inflation service has been called yet
NoCall == [fn |-> "none"]

-----------------------------------------------------------------------------
(* Inputs the model draws from *)

\* Months a user (or the AI parser) points at; 12 is an index past December.
UserMonths == {0, 1}

ParsedMonths == {0, 12}

\* Texts typed into a number input.
InputStrings == {"", "2"}

\* Texts typed into the opening-balance input.
SavingsStrings == {"", "5"}

\* Row names typed or returned by the parser.
Names == {"UTE", "ute"}

\* Categories used for rows in the model: one with breakdown, one without.
RowCategories == {"Gastos Variables", "Salud"}

TxAmounts == {3}

\* Start months chosen in the year settings while the Dashboard is watched
StartMonths == {0, 3, 11}

\* The arrays the inflation service answers with: monthly variations in percent
RateTables == { <<100, 0, -50, 0, 0, 0, 0, 0, 0, 0, 0, 100>> }

ImportAmounts == {4}

-----------------------------------------------------------------------------
(* JavaScript arrays of numbers: a length and the defined indices *)

\* Array(12).fill(0)
ArrayFill12 == [len |-> MonthsPerYear, at |-> [i \in 0..(MonthsPerYear - 1) |-> 0]]

\* arr[i] || 0 : a hole or an index past the end reads undefined, hence 0
GetOrZero(arr, i) == IF i \in DOMAIN arr.at THEN arr.at[i] ELSE 0

\* arr[i] = v on a copy: writing past the end lengthens the array
ArrSet(arr, i, v) ==
    [len |-> IF i >= arr.len THEN i + 1 ELSE arr.len,
     at  |-> [j \in (DOMAIN arr.at) \cup {i} |-> IF j = i THEN v ELSE arr.at[j]]]

\* String.prototype.toLowerCase on the names of the model
ToLowerCase(s) == CASE s = "UTE" -> "ute" [] OTHER -> s

\* parseFloat(val): TRUE when the text parses to a number (not NaN)
IsNumeric(s) == s \in {"1", "2", "5"}

\* parseFloat(val) for a text that parses
ParseFloat(s) == CASE s = "1" -> 1 [] s = "2" -> 2 [] s = "5" -> 5 [] OTHER -> 0

\* Number.prototype.toString on the balances of the model
NumToString(n) == CASE n = 0 -> "0" [] n = 1 -> "1" [] n = 2 -> "2" [] n = 5 -> "5"
                    [] OTHER -> "some other number"

\* parseFloat(val) || 0
ParseFloatOrZero(s) == IF IsNumeric(s) THEN ParseFloat(s) ELSE 0

RECURSIVE SumAmounts(_)
\* transactions.reduce((sum, t) => sum + t.amount, 0)
SumAmounts(txs) == IF txs = <<>> THEN 0 ELSE txs[1].amount + SumAmounts(Tail(txs))

-----------------------------------------------------------------------------
(* App: derived data and persistence callbacks *)

RECURSIVE FilterYear(_, _, _)
\* data.filter(item => item.year === y)  (same = TRUE)
\* data.filter(item => item.year !== y)  (same = FALSE)
FilterYear(d, y, same) ==
    IF d = <<>> THEN <<>>
    ELSE IF (d[1].year = y) = same
         THEN <<d[1]>> \o FilterYear(Tail(d), y, same)
         ELSE FilterYear(Tail(d), y, same)

\* useMemo: yearConfigs.find(c => c.year === selectedYear) || {startMonthIndex: 0}
startMonthIndex == IF selectedYear \in DOMAIN yearConfigs THEN yearConfigs[selectedYear] ELSE 0

\* useMemo: data.filter(item => item.year === selectedYear)
currentYearData == FilterYear(data, selectedYear, TRUE)

\* useMemo: data.filter(item => item.year === selectedYear - 1)
previousYearData == FilterYear(data, selectedYear - 1, TRUE)

\* handleUpdateData(yearData): the value given to setData and saveExpenses
handleUpdateData(yearData) == FilterYear(data, selectedYear, FALSE) \o yearData

\* The ExpenseEntry effect "setLocalData(data)" run after App.data became d
SyncedLocal(d) == FilterYear(d, selectedYear, TRUE)

-----------------------------------------------------------------------------
(* ExpenseEntry *)

ItemIds(rows) == {rows[i].id : i \in 1..Len(rows)}

\* item.transactions?.[m] is present (an empty list is present too)
HasTxList(item, m) == m \in DOMAIN item.transactions

\* hasTransactions of the cell renderer: a non-empty list
hasTransactions(item, m) == HasTxList(item, m) /\ Len(item.transactions[m]) > 0

\* delete newTransactions[monthIndex]
DeleteKey(f, k) == [x \in (DOMAIN f) \ {k} |-> f[x]]

\* newTransactionMap[monthIndex] = transactions
PutKey(f, k, v) == [x \in (DOMAIN f) \cup {k} |-> IF x = k THEN v ELSE f[x]]

\* handleValueChange: the row after the cell edit
ValueChangedItem(item, monthIndex, numVal) ==
    [item EXCEPT !.amounts = ArrSet(item.amounts, monthIndex, numVal),
                 !.transactions = DeleteKey(item.transactions, monthIndex)]

\* handleTransactionsSave: the row after the modal changed its list
TransactionsSavedItem(item, monthIndex, transactions) ==
    [item EXCEPT !.amounts = ArrSet(item.amounts, monthIndex, SumAmounts(transactions)),
                 !.transactions = PutKey(item.transactions, monthIndex, transactions)]

\* triggerAutoSave(updatedData): the pending timer replaces any earlier one
TriggerAutoSave(updated) ==
    /\ saveStatus' = "saving"
    /\ autoSaveTimer' = [pending |-> TRUE, payload |-> updated]

\* onUpdate(rows) called at once: App.data changes and the sheet re-syncs
ImmediateUpdate(rows) ==
    /\ data' = handleUpdateData(rows)
    /\ localData' = SyncedLocal(handleUpdateData(rows))

\* One more ledger operation, within the explored horizon
Tick == /\ ops < MaxOps
        /\ ops' = ops + 1

\* No modal covers the sheet: the transaction modal and the import preview are
\* full-screen overlays (fixed inset-0), the page behind them takes no input
SheetReachable == ~editingTransactions.open /\ importStep = "input"

\* rows.map(item => item.id === id ? Change(item) : item), for the three row changes
MapValueChange(rows, id, monthIndex, numVal) ==
    [i \in 1..Len(rows) |->
        IF rows[i].id = id THEN ValueChangedItem(rows[i], monthIndex, numVal) ELSE rows[i]]

MapTransactionsSave(rows, id, monthIndex, transactions) ==
    [i \in 1..Len(rows) |->
        IF rows[i].id = id THEN TransactionsSavedItem(rows[i], monthIndex, transactions)
        ELSE rows[i]]

MapCategoryChange(rows, id, newCat) ==
    [i \in 1..Len(rows) |-> IF rows[i].id = id THEN [rows[i] EXCEPT !.category = newCat]
                            ELSE rows[i]]

\* localData.find(i => i.id === id): the row (the caller checks that it exists)
FindItem(rows, id) == rows[CHOOSE i \in 1..Len(rows) : rows[i].id = id]

\* A new row as handleAddItem, handleSmartImport and handleCopyFromPreviousYear build it
NewItem(id, category, name) ==
    [id |-> id, year |-> selectedYear, category |-> category, name |-> name,
     amounts |-> ArrayFill12, transactions |-> <<>>]

\* handleValueChange(id, monthIndex, val): the cell accepts typing only when it is
\* enabled and shows no transactions
HandleValueChange(id, monthIndex, val) ==
    /\ SheetReachable
    /\ id \in ItemIds(localData)
    /\ monthIndex >= startMonthIndex
    /\ ~hasTransactions(FindItem(localData, id), monthIndex)
    /\ Tick
    /\ localData' = MapValueChange(localData, id, monthIndex, ParseFloatOrZero(val))
    /\ TriggerAutoSave(localData')
    /\ UNCHANGED <<data, editingTransactions, yearConfigs, selectedYear, parsedItems, removedCount,
                   importStep, defaultMonth, nextId, currentMonthIndex, viewMode, calc, products,
                   incomeVars,
                   inflationRates, simVars, productForm, inflationRequests>>

\* handleCategoryChange(id, newCat)
HandleCategoryChange(id, newCat) ==
    /\ SheetReachable
    /\ id \in ItemIds(localData)
    /\ FindItem(localData, id).category # newCat
    /\ Tick
    /\ localData' = MapCategoryChange(localData, id, newCat)
    /\ TriggerAutoSave(localData')
    /\ UNCHANGED <<data, editingTransactions, yearConfigs, selectedYear, parsedItems, removedCount,
                   importStep, defaultMonth, nextId, currentMonthIndex, viewMode, calc, products,
                   incomeVars,
                   inflationRates, simVars, productForm, inflationRequests>>

\* The setTimeout callback of triggerAutoSave, 500 ms after the last call
AutoSaveFire ==
    /\ autoSaveTimer.pending
    /\ ImmediateUpdate(autoSaveTimer.payload)
    /\ saveStatus' = "saved"
    /\ autoSaveTimer' = NoTimer
    /\ UNCHANGED <<editingTransactions, yearConfigs, selectedYear, parsedItems, removedCount,
                   importStep, defaultMonth, nextId, ops, currentMonthIndex, viewMode, calc,
                   products,
                   incomeVars,
                   inflationRates, simVars, productForm, inflationRequests>>

\* handleDoubleClick(item, itemIdx, monthIdx): opens the transaction modal
HandleDoubleClick(id, monthIdx) ==
    /\ SheetReachable
    /\ id \in ItemIds(localData)
    /\ monthIdx >= startMonthIndex
    /\ Tick
    /\ editingTransactions' = [open |-> TRUE, itemId |-> id, monthIndex |-> monthIdx]
    /\ UNCHANGED <<data, localData, saveStatus, autoSaveTimer, yearConfigs, selectedYear,
                   parsedItems, removedCount, importStep, defaultMonth, nextId,
                   currentMonthIndex, viewMode, calc, products, incomeVars, inflationRates,
                   simVars, productForm, inflationRequests>>

\* TransactionModal.handleSave / onClose: setEditingTransactions(null)
CloseTransactionModal ==
    /\ editingTransactions.open
    /\ editingTransactions' = NoCell
    /\ UNCHANGED <<data, localData, saveStatus, autoSaveTimer, yearConfigs, selectedYear,
                   parsedItems,
                   removedCount, importStep, defaultMonth, nextId, ops, currentMonthIndex,
                   viewMode,
                   calc, products,
                   incomeVars, inflationRates, simVars, productForm, inflationRequests>>

\* currentTransactions of the modal:
\* localData.find(i => i.id === itemId)?.transactions?.[monthIndex] || []
ModalTransactions ==
    IF editingTransactions.itemId \in ItemIds(localData)
       /\ HasTxList(FindItem(localData, editingTransactions.itemId),
                    editingTransactions.monthIndex)
    THEN FindItem(localData, editingTransactions.itemId)
             .transactions[editingTransactions.monthIndex]
    ELSE <<>>

\* handleTransactionsSave(transactions)
HandleTransactionsSave(transactions) ==
    /\ editingTransactions.open
    /\ ImmediateUpdate(MapTransactionsSave(localData, editingTransactions.itemId,
                                           editingTransactions.monthIndex, transactions))
    /\ UNCHANGED <<saveStatus, autoSaveTimer, editingTransactions, yearConfigs, selectedYear,
                   parsedItems, removedCount, importStep, defaultMonth, currentMonthIndex,
                   viewMode,
                   calc, products,
                   incomeVars, inflationRates, simVars, productForm, inflationRequests>>

\* TransactionModal.addTransaction: onTransactionChange([...transactions, newItem])
ModalAddTransaction(amount) ==
    /\ editingTransactions.open
    /\ Tick
    /\ nextId' = nextId + 1
    /\ HandleTransactionsSave(
           Append(ModalTransactions, [id |-> nextId, amount |-> amount, kind |-> "modal"]))

\* TransactionModal.handleDelete(id): onTransactionChange(transactions.filter(...))
ModalDeleteTransaction(k) ==
    /\ editingTransactions.open
    /\ k \in 1..Len(ModalTransactions)
    /\ Tick
    /\ nextId' = nextId
    /\ HandleTransactionsSave(
           [i \in 1..(Len(ModalTransactions) - 1) |->
               IF i < k THEN ModalTransactions[i] ELSE ModalTransactions[i + 1]])

\* handleAddItem with newName = name, newCategory = category
HandleAddItem(name, category) ==
    /\ SheetReachable
    /\ Tick
    /\ nextId' = nextId + 1
    /\ ImmediateUpdate(Append(localData, NewItem(nextId, category, name)))
    /\ UNCHANGED <<saveStatus, autoSaveTimer, editingTransactions, yearConfigs, selectedYear,
                   parsedItems, removedCount, importStep, defaultMonth, currentMonthIndex,
                   viewMode,
                   calc, products,
                   incomeVars, inflationRates, simVars, productForm, inflationRequests>>

RECURSIVE RemoveId(_, _)
\* localData.filter(i => i.id !== id)
RemoveId(rows, id) ==
    IF rows = <<>> THEN <<>>
    ELSE IF rows[1].id # id THEN <<rows[1]>> \o RemoveId(Tail(rows), id)
         ELSE RemoveId(Tail(rows), id)

\* confirmDelete with itemToDelete = the row of this id
ConfirmDelete(id) ==
    /\ SheetReachable
    /\ id \in ItemIds(localData)
    /\ Tick
    /\ ImmediateUpdate(RemoveId(localData, id))
    /\ UNCHANGED <<saveStatus, autoSaveTimer, editingTransactions, yearConfigs, selectedYear,
                   parsedItems, removedCount, importStep, defaultMonth, nextId,
                   currentMonthIndex, viewMode, calc, products, incomeVars, inflationRates,
                   simVars, productForm, inflationRequests>>

\* handleCopyFromPreviousYear
HandleCopyFromPreviousYear ==
    /\ SheetReachable
    /\ Len(previousYearData) > 0
    /\ Tick
    /\ nextId' = nextId + Len(previousYearData)
    /\ ImmediateUpdate(localData \o
           [i \in 1..Len(previousYearData) |->
               NewItem(nextId + i - 1, previousYearData[i].category,
                       previousYearData[i].name)])
    /\ UNCHANGED <<saveStatus, autoSaveTimer, editingTransactions, yearConfigs, selectedYear,
                   parsedItems, removedCount, importStep, defaultMonth, currentMonthIndex,
                   viewMode,
                   calc, products,
                   incomeVars, inflationRates, simVars, productForm, inflationRequests>>

-----------------------------------------------------------------------------
(* QuickAddModal *)

\* supportsBreakdown: CATEGORIES_WITH_BREAKDOWN.includes(item.category) ||
\* CATEGORIES_WITH_BREAKDOWN.some(c => item.category.includes(c)); no category of the
\* model contains another one as a substring
SupportsBreakdown(category) == category \in CATEGORIES_WITH_BREAKDOWN

\* finalTransactions of handleSubmit for a row with breakdown
QuickAddTransactions(item, monthIndex, numAmount, id) ==
    LET newTransaction == [id |-> id, amount |-> numAmount, kind |-> "quick"]
        legacyTransaction == [id |-> id + 1, amount |-> GetOrZero(item.amounts, monthIndex),
                              kind |-> "legacy"]
    IN  IF ~HasTxList(item, monthIndex) /\ GetOrZero(item.amounts, monthIndex) > 0
        THEN <<legacyTransaction, newTransaction>>
        ELSE (IF HasTxList(item, monthIndex) THEN item.transactions[monthIndex] ELSE <<>>)
             \o <<newTransaction>>

\* The row handleSubmit returns for the selected item
QuickAddItem(item, monthIndex, numAmount, id) ==
    IF SupportsBreakdown(item.category)
    THEN [item EXCEPT
            !.amounts = ArrSet(item.amounts, monthIndex,
                               SumAmounts(QuickAddTransactions(item, monthIndex, numAmount, id))),
            !.transactions = PutKey(item.transactions, monthIndex,
                                    QuickAddTransactions(item, monthIndex, numAmount, id))]
    ELSE [item EXCEPT
            !.amounts = ArrSet(item.amounts, monthIndex,
                               GetOrZero(item.amounts, monthIndex) + numAmount)]

\* QuickAddModal.handleSubmit; onSave is App's handleUpdateData
QuickAddSubmit(selectedItemId, monthIndex, amount) ==
    /\ SheetReachable
    /\ selectedItemId \in ItemIds(currentYearData)
    /\ amount # ""
    /\ IsNumeric(amount)
    /\ Tick
    /\ nextId' = nextId + 2
    /\ ImmediateUpdate(
           [i \in 1..Len(currentYearData) |->
               IF currentYearData[i].id = selectedItemId
               THEN QuickAddItem(currentYearData[i], monthIndex, ParseFloat(amount), nextId)
               ELSE currentYearData[i]])
    /\ UNCHANGED <<saveStatus, autoSaveTimer, editingTransactions, yearConfigs, selectedYear,
                   parsedItems, removedCount, importStep, defaultMonth, currentMonthIndex,
                   viewMode,
                   calc, products,
                   incomeVars, inflationRates, simVars, productForm, inflationRequests>>

-----------------------------------------------------------------------------
(* SmartImportModal and handleSmartImport *)

NullMonth == [isNull |-> TRUE]

Month(m) == [isNull |-> FALSE, v |-> m]

\* What parseExpensesFromText may resolve to: the parsed JSON array is not validated
ParsedExpenses ==
    [name : {"UTE"}, category : RowCategories, amount : ImportAmounts,
     monthIndex : {NullMonth} \cup {Month(m) : m \in ParsedMonths}]

RECURSIVE SeqsUpTo(_, _)
SeqsUpTo(S, n) ==
    IF n = 0 THEN {<<>>}
    ELSE SeqsUpTo(S, n - 1) \cup
         {Append(q, x) : q \in {r \in SeqsUpTo(S, n - 1) : Len(r) = n - 1}, x \in S}

\* The arrays parseExpensesFromText resolves to in the model
ParserResults == SeqsUpTo(ParsedExpenses, MaxParsed)

\* effectiveMonth of handleAnalyze
EffectiveMonth(item) == IF item.monthIndex.isNull THEN defaultMonth ELSE item.monthIndex.v

\* Faulty variant of Processed: every item is kept with its effective month
ProcessedUnfiltered(result) ==
    [k \in 1..Len(result) |->
        [result[k] EXCEPT !.monthIndex = Month(EffectiveMonth(result[k]))]]

RECURSIVE Processed(_)
\* handleAnalyze: the items kept, each with its effective month
Processed(result) ==
    IF result = <<>> THEN <<>>
    ELSE IF EffectiveMonth(result[1]) >= startMonthIndex
         THEN <<[result[1] EXCEPT !.monthIndex = Month(EffectiveMonth(result[1]))]>>
              \o Processed(Tail(result))
         ELSE Processed(Tail(result))

\* SmartImportModal.handleAnalyze with the parser's answer
HandleAnalyze(result) ==
    /\ SheetReachable
    /\ Tick
    /\ parsedItems' = Processed(result)
    /\ removedCount' = Len(result) - Len(Processed(result))
    /\ importStep' = "preview"
    /\ UNCHANGED <<data, localData, saveStatus, autoSaveTimer, editingTransactions,
                   yearConfigs, selectedYear, defaultMonth, nextId, currentMonthIndex,
                   viewMode, calc,
                   products,
                   incomeVars, inflationRates, simVars, productForm, inflationRequests>>

\* The month buttons of the input step: idx >= startMonthIndex && setDefaultMonth(idx)
SetDefaultMonth(idx) ==
    /\ SheetReachable
    /\ idx >= startMonthIndex
    /\ idx # defaultMonth
    /\ Tick
    /\ defaultMonth' = idx
    /\ UNCHANGED <<data, localData, saveStatus, autoSaveTimer, editingTransactions,
                   yearConfigs, selectedYear, parsedItems, removedCount, importStep, nextId,
                   currentMonthIndex, viewMode, calc, products, incomeVars, inflationRates,
                   simVars, productForm, inflationRequests>>

\* existingIndex of handleSmartImport: the first row of the same name (case-insensitive)
\* and category, 0 when there is none
ExistingIndex(rows, imported) ==
    LET hits == {i \in 1..Len(rows) :
                    /\ ToLowerCase(rows[i].name) = ToLowerCase(imported.name)
                    /\ rows[i].category = imported.category}
    IN  IF hits = {} THEN 0 ELSE CHOOSE i \in hits : \A j \in hits : i <= j

\* imported.monthIndex || 0
MonthOrZero(imported) == IF imported.monthIndex.isNull THEN 0 ELSE imported.monthIndex.v

\* One round of items.forEach in handleSmartImport
ImportOne(rows, imported, id) ==
    IF ExistingIndex(rows, imported) > 0
    THEN [rows EXCEPT ![ExistingIndex(rows, imported)].amounts =
            ArrSet(@, MonthOrZero(imported),
                   GetOrZero(@, MonthOrZero(imported)) + imported.amount)]
    ELSE Append(rows,
            [NewItem(id, imported.category, imported.name) EXCEPT
                !.amounts = ArrSet(@, MonthOrZero(imported), imported.amount)])

RECURSIVE SmartImported(_, _, _)
\* updatedData after items.forEach
SmartImported(rows, items, id) ==
    IF items = <<>> THEN rows
    ELSE SmartImported(ImportOne(rows, items[1], id), Tail(items), id + 1)

\* SmartImportModal.handleConfirm: onImport(parsedItems) = handleSmartImport, then handleClose
HandleConfirmImport ==
    /\ importStep = "preview"
    /\ Len(parsedItems) > 0
    /\ Tick
    /\ nextId' = nextId + Len(parsedItems)
    /\ ImmediateUpdate(SmartImported(localData, parsedItems, nextId))
    /\ parsedItems' = <<>>
    /\ importStep' = "input"
    /\ UNCHANGED <<saveStatus, autoSaveTimer, editingTransactions, yearConfigs, selectedYear,
                   removedCount, defaultMonth, currentMonthIndex, viewMode, calc, products,
                   incomeVars,
                   inflationRates, simVars, productForm, inflationRequests>>

\* SmartImportModal.handleClose from the preview step
HandleCloseImport ==
    /\ importStep = "preview"
    /\ parsedItems' = <<>>
    /\ importStep' = "input"
    /\ UNCHANGED <<data, localData, saveStatus, autoSaveTimer, editingTransactions,
                   yearConfigs, selectedYear, removedCount, defaultMonth, nextId, ops,
                   currentMonthIndex, viewMode, calc, products, incomeVars, inflationRates,
                   simVars, productForm, inflationRequests>>

-----------------------------------------------------------------------------
(* Year settings: start month and cleanup *)

\* handleUpdateYearConfig(startMonthIndex) for the selected year
HandleUpdateYearConfig(idx) ==
    /\ SheetReachable
    /\ idx # startMonthIndex
    /\ Tick
    /\ yearConfigs' = [y \in (DOMAIN yearConfigs) \cup {selectedYear} |->
                           IF y = selectedYear THEN idx ELSE yearConfigs[y]]
    /\ UNCHANGED <<data, localData, saveStatus, autoSaveTimer, editingTransactions,
                   selectedYear, parsedItems, removedCount, importStep, defaultMonth, nextId,
                   currentMonthIndex, viewMode, calc, products, incomeVars, inflationRates,
                   simVars, productForm, inflationRequests>>

\* Faulty variant of CleanedAmounts: the month before the start month is not zeroed
CleanedAmountsButLast(amounts, startIdx) ==
    [len |-> IF startIdx > amounts.len THEN startIdx ELSE amounts.len,
     at  |-> [j \in (DOMAIN amounts.at) \cup 0..(startIdx - 1) |->
                 IF j < startIdx - 1 \/ j \notin DOMAIN amounts.at THEN 0
                 ELSE amounts.at[j]]]

\* newAmounts after "for (i < startIdx) if (newAmounts[i] !== 0) newAmounts[i] = 0"
CleanedAmounts(amounts, startIdx) ==
    [len |-> IF startIdx > amounts.len THEN startIdx ELSE amounts.len,
     at  |-> [j \in (DOMAIN amounts.at) \cup 0..(startIdx - 1) |->
                 IF j < startIdx THEN 0 ELSE amounts.at[j]]]

\* hasChanges of one row
CleanChanges(item, startIdx) ==
    \E i \in 0..(startIdx - 1) : i \notin DOMAIN item.amounts.at \/ item.amounts.at[i] # 0

\* updatedYearData of handleCleanInvalidData
CleanedYearData(rows, startIdx) ==
    [i \in 1..Len(rows) |->
        IF CleanChanges(rows[i], startIdx)
        THEN [rows[i] EXCEPT !.amounts = CleanedAmounts(rows[i].amounts, startIdx)]
        ELSE rows[i]]

\* changed of handleCleanInvalidData
CleanChanged(rows, startIdx) == \E i \in 1..Len(rows) : CleanChanges(rows[i], startIdx)

\* YearSettingsModal.handleClean -> handleCleanInvalidData(currentYearConfig.startMonthIndex)
HandleClean ==
    /\ SheetReachable
    /\ Tick
    /\ IF CleanChanged(currentYearData, startMonthIndex)
       THEN ImmediateUpdate(CleanedYearData(currentYearData, startMonthIndex))
       ELSE UNCHANGED <<data, localData>>
    /\ UNCHANGED <<saveStatus, autoSaveTimer, editingTransactions, yearConfigs, selectedYear,
                   parsedItems, removedCount, importStep, defaultMonth, nextId,
                   currentMonthIndex, viewMode, calc, products, incomeVars, inflationRates,
                   simVars, productForm, inflationRequests>>

-----------------------------------------------------------------------------
(* App: income, opening balance *)

\* useMemo: incomeData.filter(item => item.year === selectedYear)
currentYearIncome == FilterYear(incomeData, selectedYear, TRUE)

\* useMemo: incomeData.filter(item => item.year === selectedYear - 1)
previousYearIncome == FilterYear(incomeData, selectedYear - 1, TRUE)

RECURSIVE SumArray(_, _)
\* item.amounts.reduce((a, b) => a + b, 0), from index i on (reduce skips holes)
SumArray(arr, i) ==
    IF i >= arr.len THEN 0
    ELSE (IF i \in DOMAIN arr.at THEN arr.at[i] ELSE 0) + SumArray(arr, i + 1)

RECURSIVE SumBefore(_, _)
\* The total of the rows of the years before y
SumBefore(rows, y) ==
    IF rows = <<>> THEN 0
    ELSE (IF rows[1].year < y THEN SumArray(rows[1].amounts, 0) ELSE 0)
         + SumBefore(Tail(rows), y)

\* useMemo previousYearsAccumulated: income minus expenses of the past years
previousYearsAccumulated == SumBefore(incomeData, selectedYear) - SumBefore(data, selectedYear)

\* openingBalanceForSelectedYear
openingBalanceForSelectedYear == globalBaseBalance + previousYearsAccumulated

\* handleUpdateIncome(yearIncome): the value given to setIncomeData and saveIncome
handleUpdateIncome(yearIncome) == FilterYear(incomeData, selectedYear, FALSE) \o yearIncome

\* handleUpdateOpeningBalance(newOpeningBalance): the value given to setGlobalBaseBalance
handleUpdateOpeningBalance(newOpeningBalance) == newOpeningBalance - previousYearsAccumulated

-----------------------------------------------------------------------------
(* IncomeEntry *)

\* The effect of IncomeEntry on [openingBalance]: the text shown for a balance
SavingsText(openingBalance) == IF openingBalance = 0 THEN "" ELSE NumToString(openingBalance)

\* triggerAutoSave(updatedData?, updatedSavings?): one timer for both arguments
IncTriggerAutoSave(hasData, updatedData, hasSavings, updatedSavings) ==
    /\ incSaveStatus' = "saving"
    /\ incTimer' = [pending |-> TRUE, hasData |-> hasData, updatedData |-> updatedData,
                    hasSavings |-> hasSavings, updatedSavings |-> updatedSavings]

\* IncomeEntry.handleValueChange(id, monthIndex, val)
IncHandleValueChange(id, monthIndex, val) ==
    /\ id \in ItemIds(incLocalData)
    /\ monthIndex >= startMonthIndex
    /\ Tick
    /\ incLocalData' = [i \in 1..Len(incLocalData) |->
                          IF incLocalData[i].id = id
                          THEN [incLocalData[i] EXCEPT !.amounts =
                                   ArrSet(@, monthIndex, ParseFloatOrZero(val))]
                          ELSE incLocalData[i]]
    /\ IncTriggerAutoSave(TRUE, incLocalData', FALSE, "")
    /\ UNCHANGED <<incomeData, globalBaseBalance, localSavings>>
    /\ UNCHANGED <<data, localData, saveStatus, autoSaveTimer, editingTransactions, yearConfigs,
                   selectedYear, parsedItems, removedCount, importStep, defaultMonth, nextId,
                   currentMonthIndex, viewMode, calc, products, inflationRates, simVars,
                   productForm, inflationRequests>>

\* IncomeEntry.handleCategoryChange(id, newCat)
IncHandleCategoryChange(id, newCat) ==
    /\ id \in ItemIds(incLocalData)
    /\ FindItem(incLocalData, id).category # newCat
    /\ Tick
    /\ incLocalData' = MapCategoryChange(incLocalData, id, newCat)
    /\ IncTriggerAutoSave(TRUE, incLocalData', FALSE, "")
    /\ UNCHANGED <<incomeData, globalBaseBalance, localSavings>>
    /\ UNCHANGED <<data, localData, saveStatus, autoSaveTimer, editingTransactions, yearConfigs,
                   selectedYear, parsedItems, removedCount, importStep, defaultMonth, nextId,
                   currentMonthIndex, viewMode, calc, products, inflationRates, simVars,
                   productForm, inflationRequests>>

\* IncomeEntry.handleNameChange(id, newName): a blank name is dropped
IncHandleNameChange(id, newName) ==
    /\ id \in ItemIds(incLocalData)
    /\ newName # ""
    /\ FindItem(incLocalData, id).name # newName
    /\ Tick
    /\ incLocalData' = [i \in 1..Len(incLocalData) |->
                          IF incLocalData[i].id = id
                          THEN [incLocalData[i] EXCEPT !.name = newName]
                          ELSE incLocalData[i]]
    /\ IncTriggerAutoSave(TRUE, incLocalData', FALSE, "")
    /\ UNCHANGED <<incomeData, globalBaseBalance, localSavings>>
    /\ UNCHANGED <<data, localData, saveStatus, autoSaveTimer, editingTransactions, yearConfigs,
                   selectedYear, parsedItems, removedCount, importStep, defaultMonth, nextId,
                   currentMonthIndex, viewMode, calc, products, inflationRates, simVars,
                   productForm, inflationRequests>>

\* newItems.splice(from, 1) then newItems.splice(to, 0, moved), positions from 1
Spliced(rows, from, to) ==
    [i \in 1..Len(rows) |->
        IF i = to THEN rows[from]
        ELSE IF from < to /\ i >= from /\ i < to THEN rows[i + 1]
        ELSE IF to < from /\ i > to /\ i <= from THEN rows[i - 1]
        ELSE rows[i]]

\* IncomeEntry.handleDrop(e, targetIndex) of the row dragged from draggedItemIndex
IncHandleDrop(draggedItemIndex, targetIndex) ==
    /\ draggedItemIndex \in 1..Len(incLocalData)
    /\ targetIndex \in 1..Len(incLocalData)
    /\ draggedItemIndex # targetIndex
    /\ Tick
    /\ incLocalData' = Spliced(incLocalData, draggedItemIndex, targetIndex)
    /\ IncTriggerAutoSave(TRUE, incLocalData', FALSE, "")
    /\ UNCHANGED <<incomeData, globalBaseBalance, localSavings>>
    /\ UNCHANGED <<data, localData, saveStatus, autoSaveTimer, editingTransactions, yearConfigs,
                   selectedYear, parsedItems, removedCount, importStep, defaultMonth, nextId,
                   currentMonthIndex, viewMode, calc, products, inflationRates, simVars,
                   productForm, inflationRequests>>

\* IncomeEntry.handleSavingsChange(val)
HandleSavingsChange(val) ==
    /\ val # localSavings
    /\ Tick
    /\ localSavings' = val
    /\ IncTriggerAutoSave(FALSE, <<>>, TRUE, val)
    /\ UNCHANGED <<incomeData, globalBaseBalance, incLocalData>>
    /\ UNCHANGED <<data, localData, saveStatus, autoSaveTimer, editingTransactions, yearConfigs,
                   selectedYear, parsedItems, removedCount, importStep, defaultMonth, nextId,
                   currentMonthIndex, viewMode, calc, products, inflationRates, simVars,
                   productForm, inflationRequests>>

\* IncomeEntry.handleAddItem: onUpdate is called at once, a pending timer stays pending
IncHandleAddItem(name, category) ==
    /\ name # ""
    /\ Tick
    /\ incomeData' = handleUpdateIncome(Append(incLocalData,
                        [id |-> nextId, year |-> selectedYear, category |-> category,
                         name |-> name, amounts |-> ArrayFill12]))
    /\ incLocalData' = FilterYear(incomeData', selectedYear, TRUE)
    /\ nextId' = nextId + 1
    /\ UNCHANGED <<globalBaseBalance, localSavings, incSaveStatus, incTimer>>
    /\ UNCHANGED <<data, localData, saveStatus, autoSaveTimer, editingTransactions, yearConfigs,
                   selectedYear, parsedItems, removedCount, importStep, defaultMonth,
                   currentMonthIndex, viewMode, calc, products, inflationRates, simVars,
                   productForm, inflationRequests>>

\* The income rows after the timer's callback: onUpdate(updatedData) when it was given
IncomeAfterFire == IF incTimer.hasData THEN handleUpdateIncome(incTimer.updatedData)
                   ELSE incomeData

\* The base balance after the timer's callback: onUpdateOpeningBalance(parseFloat(s) || 0)
\* when updatedSavings was given
BaseAfterFire == IF incTimer.hasSavings
                 THEN handleUpdateOpeningBalance(ParseFloatOrZero(incTimer.updatedSavings))
                 ELSE globalBaseBalance

\* The setTimeout callback of IncomeEntry.triggerAutoSave, 500 ms after the last call,
\* followed by the two effects that copy the props back into the local state
IncAutoSaveFire ==
    /\ incTimer.pending
    /\ incomeData' = IncomeAfterFire
    /\ globalBaseBalance' = BaseAfterFire
    /\ incLocalData' = IF incTimer.hasData THEN FilterYear(incomeData', selectedYear, TRUE)
                       ELSE incLocalData
    /\ localSavings' = IF globalBaseBalance' # globalBaseBalance
                       THEN SavingsText(globalBaseBalance' + previousYearsAccumulated)
                       ELSE localSavings
    /\ incSaveStatus' = "saved"
    /\ incTimer' = NoTimer
    /\ UNCHANGED ledgerVars
    /\ UNCHANGED <<currentMonthIndex, viewMode, calc, products, inflationRates, simVars,
                   productForm, inflationRequests>>

-----------------------------------------------------------------------------
(* JavaScript numbers of the Dashboard: exact rationals n/d in lowest terms, d > 0 *)

Abs(x) == IF x < 0 THEN -x ELSE x

RECURSIVE GCD(_, _)
GCD(a, b) == IF b = 0 THEN a ELSE GCD(b, a % b)

\* n / d for d # 0
Rat(n, d) ==
    LET g == GCD(Abs(n), Abs(d))
        sgn == IF d < 0 THEN -1 ELSE 1
    IN  [n |-> (sgn * n) \div g, d |-> (sgn * d) \div g]

RatOfInt(k) == [n |-> k, d |-> 1]

RatAdd(p, q) == Rat(p.n * q.d + q.n * p.d, p.d * q.d)

RatSub(p, q) == Rat(p.n * q.d - q.n * p.d, p.d * q.d)

RatMul(p, q) == Rat(p.n * q.n, p.d * q.d)

\* p / q for q # 0
RatDiv(p, q) == Rat(p.n * q.d, p.d * q.n)

RatLeq(p, q) == p.n * q.d <= q.n * p.d

\* NaN, and Infinity with its sign: the values a division by zero produces
NaN == [n |-> 0, d |-> 0]

Infinity(sign) == [n |-> sign, d |-> 0]

\* Number.isFinite
IsFinite(p) == p.d # 0

Sign(k) == IF k < 0 THEN -1 ELSE IF k > 0 THEN 1 ELSE 0

\* p / q of JavaScript for finite p and q: x / 0 is +-Infinity, 0 / 0 is NaN
JsDiv(p, q) ==
    IF q.n # 0 THEN RatDiv(p, q)
    ELSE IF p.n = 0 THEN NaN
    ELSE Infinity(Sign(p.n))

\* p * q of JavaScript: NaN is absorbing, Infinity * 0 is NaN
JsMul(p, q) ==
    IF IsFinite(p) /\ IsFinite(q) THEN RatMul(p, q)
    ELSE IF p = NaN \/ q = NaN \/ p.n = 0 \/ q.n = 0 THEN NaN
    ELSE Infinity(Sign(p.n) * Sign(q.n))

\* Math.sqrt(q) for q >= 0, kept as the radicand: the value whose square is q
Sqrt(q) == [rad |-> q]

\* The product of two square roots
SqrtMul(s, t) == [rad |-> RatMul(s.rad, t.rad)]

\* A square root times the rational q >= 0
SqrtScale(s, q) == [rad |-> RatMul(s.rad, RatMul(q, q))]

\* p - s and p + s for a rational p and a square root s: the rational part, the sign
\* of the irrational part (0 when it vanishes) and its square
RatMinusSqrt(p, s) == [rat |-> p, sign |-> IF s.rad.n = 0 THEN 0 ELSE -1, rad |-> s.rad]

RatPlusSqrt(p, s) == [rat |-> p, sign |-> IF s.rad.n = 0 THEN 0 ELSE 1, rad |-> s.rad]

\* null, and a number that is present
Null == [isNull |-> TRUE]

Val(x) == [isNull |-> FALSE, v |-> x]

-----------------------------------------------------------------------------
(* InflationService: calculation helpers *)

\* Faulty variant of RateOrZero: a month without a rate doubles prices
RateOrHundred(monthlyRates, i) ==
    IF i + 1 \in DOMAIN monthlyRates THEN monthlyRates[i + 1] ELSE 100

\* monthlyRates[i] || 0 for a JavaScript index i
RateOrZero(monthlyRates, i) ==
    IF i + 1 \in DOMAIN monthlyRates THEN monthlyRates[i + 1] ELSE 0

RECURSIVE InflationMultiplier(_, _, _)
\* multiplier after "for (i = from; i <= targetMonthIdx; i++) multiplier *= 1 + rate / 100"
InflationMultiplier(monthlyRates, from, targetMonthIdx) ==
    IF from > targetMonthIdx THEN RatOfInt(1)
    ELSE RatMul(RatAdd(RatOfInt(1), Rat(RateOrZero(monthlyRates, from), 100)),
                InflationMultiplier(monthlyRates, from + 1, targetMonthIdx))

\* Faulty variant of getCumulativeInflation: the target month is left out
getCumulativeInflationExclusive(monthlyRates, startMonthIdx, targetMonthIdx) ==
    RatMul(RatSub(InflationMultiplier(monthlyRates, startMonthIdx, targetMonthIdx - 1),
                  RatOfInt(1)),
           RatOfInt(100))

\* getCumulativeInflation(monthlyRates, startMonthIdx, targetMonthIdx)
getCumulativeInflation(monthlyRates, startMonthIdx, targetMonthIdx) ==
    RatMul(RatSub(InflationMultiplier(monthlyRates, startMonthIdx, targetMonthIdx),
                  RatOfInt(1)),
           RatOfInt(100))

\* Faulty variant of calculateRealValue: the percentage is taken off the amount
calculateRealValueDiscount(nominalAmount, accumulatedInflationPercentage) ==
    RatMul(nominalAmount,
           RatSub(RatOfInt(1), RatDiv(accumulatedInflationPercentage, RatOfInt(100))))

\* calculateRealValue(nominalAmount, accumulatedInflationPercentage)
calculateRealValue(nominalAmount, accumulatedInflationPercentage) ==
    IF accumulatedInflationPercentage.n = 0 THEN nominalAmount
    ELSE JsDiv(nominalAmount,
               RatAdd(RatOfInt(1), RatDiv(accumulatedInflationPercentage, RatOfInt(100))))

\* Faulty variant of calculatePresentValue: the loop starts at the purchase month
calculatePresentValueFromPurchase(pastAmount, fromMonthIdx, currentMonthIdx, rates) ==
    IF fromMonthIdx >= currentMonthIdx THEN pastAmount
    ELSE RatMul(pastAmount, InflationMultiplier(rates, fromMonthIdx, currentMonthIdx))

\* calculatePresentValue(pastAmount, fromMonthIdx, currentMonthIdx, rates): the same
\* loop body as getCumulativeInflation, run from fromMonthIdx + 1
calculatePresentValue(pastAmount, fromMonthIdx, currentMonthIdx, rates) ==
    IF fromMonthIdx >= currentMonthIdx THEN pastAmount
    ELSE RatMul(pastAmount, InflationMultiplier(rates, fromMonthIdx + 1, currentMonthIdx))

-----------------------------------------------------------------------------
(* Dashboard: data windows, monthly aggregates, averages *)

\* MONTHS.map(month => month.substring(0, 3))
MonthNames == <<"Ene", "Feb", "Mar", "Abr", "May", "Jun",
                "Jul", "Ago", "Sep", "Oct", "Nov", "Dic">>

\* isCurrentYear: year === currentYear, year being yearConfig.year
isCurrentYear == selectedYear = CurrentYear

\* MAX_MONTH_FOR_STATS
MAX_MONTH_FOR_STATS ==
    IF isCurrentYear
    THEN (IF currentMonthIndex - 1 > -1 THEN currentMonthIndex - 1 ELSE -1)
    ELSE MonthsPerYear - 1

\* Faulty variant of isReliableForStats: the window runs through the current month
isReliableThroughCurrent(idx) ==
    idx >= startMonthIndex
    /\ idx <= (IF isCurrentYear THEN currentMonthIndex ELSE MonthsPerYear - 1)

\* isReliableForStats(idx)
isReliableForStats(idx) == idx >= startMonthIndex /\ idx <= MAX_MONTH_FOR_STATS

RECURSIVE TotalAt(_, _)
\* rows.reduce((acc, item) => acc + (item.amounts[index] || 0), 0)
TotalAt(rows, index) ==
    IF rows = <<>> THEN 0 ELSE GetOrZero(rows[1].amounts, index) + TotalAt(Tail(rows), index)

\* monthlyData of the rows given to the Dashboard, by JavaScript month index
MonthlyDataOf(expenses, incomes) ==
    [index \in 0..(MonthsPerYear - 1) |->
        [name       |-> MonthNames[index + 1],
         expense    |-> TotalAt(expenses, index),
         income     |-> TotalAt(incomes, index),
         netSavings |-> TotalAt(incomes, index) - TotalAt(expenses, index),
         index      |-> index]]

\* monthlyData
monthlyData == MonthlyDataOf(currentYearData, currentYearIncome)

RECURSIVE SumSavings(_, _)
\* sumSavings of the averages loop, from month i on
SumSavings(md, i) ==
    IF i >= MonthsPerYear THEN 0
    ELSE (IF isReliableForStats(i) THEN md[i].netSavings ELSE 0) + SumSavings(md, i + 1)

\* count of the averages loop (validMonthsCount)
validMonthsCount == Cardinality({i \in 0..(MonthsPerYear - 1) : isReliableForStats(i)})

\* Faulty variant of AvgSavingsOf: without a month to average it answers 1
AvgSavingsDefaultOne(md) ==
    IF validMonthsCount > 0 THEN Rat(SumSavings(md, 0), validMonthsCount) ELSE RatOfInt(1)

\* avgSavings: count > 0 ? sumSavings / count : 0
AvgSavingsOf(md) ==
    IF validMonthsCount > 0 THEN Rat(SumSavings(md, 0), validMonthsCount) ELSE RatOfInt(0)

avgSavings == AvgSavingsOf(monthlyData)

RECURSIVE SumSquares(_, _, _)
\* reliableSavingsValues.reduce((acc, val) => acc + Math.pow(val - avgSavings, 2), 0),
\* from month i on
SumSquares(md, avg, i) ==
    IF i >= MonthsPerYear THEN RatOfInt(0)
    ELSE RatAdd(IF isReliableForStats(i)
                THEN RatMul(RatSub(RatOfInt(md[i].netSavings), avg),
                            RatSub(RatOfInt(md[i].netSavings), avg))
                ELSE RatOfInt(0),
                SumSquares(md, avg, i + 1))

\* variance: the sum of squares over reliableSavingsValues.length, 0 for no value
VarianceOf(md, avg) ==
    IF validMonthsCount > 0
    THEN RatDiv(SumSquares(md, avg, 0), RatOfInt(validMonthsCount))
    ELSE RatOfInt(0)

\* stdDev = Math.sqrt(variance)
StdDevOf(md, avg) == Sqrt(VarianceOf(md, avg))

-----------------------------------------------------------------------------
(* Dashboard: the projection *)

\* baseBalance, the prop App gives the Dashboard
baseBalance == openingBalanceForSelectedYear

\* Faulty variant of isPast: the clock's month decides in every year
isPastByClock(i) == i < currentMonthIndex

\* isPast, isCurrent, isFuture of month i
isPast(i) == IF isCurrentYear THEN i < currentMonthIndex ELSE TRUE

isCurrent(i) == isCurrentYear /\ i = currentMonthIndex

isFuture(i) == isCurrentYear /\ i > currentMonthIndex

\* cumulativeInflation of month i
CumulativeInflation(i) == getCumulativeInflation(inflationRates, startMonthIndex, i)

\* Faulty variant of PastStep: the projected accumulator is not synced with the actual
PastStepUnsynced(i, acc, md, avg, sd) ==
    LET cumulativeInflation == CumulativeInflation(i)
        runningActual == RatAdd(acc.runningActual, RatOfInt(md[i].netSavings))
    IN  [runningActual    |-> runningActual,
         runningProjected |-> acc.runningProjected,
         points |-> << [name          |-> md[i].name,
                        actual        |-> Val(runningActual),
                        realActual    |-> Val(calculateRealValue(runningActual,
                                                                 cumulativeInflation)),
                        projected     |-> Null,
                        realProjected |-> Null,
                        range         |-> Null,
                        isUnrecorded  |-> i < startMonthIndex,
                        inflation     |-> cumulativeInflation] >>]

\* The first branch of the loop body: the point pushed and the two accumulators after it
PastStep(i, acc, md, avg, sd) ==
    LET cumulativeInflation == CumulativeInflation(i)
        runningActual == RatAdd(acc.runningActual, RatOfInt(md[i].netSavings))
    IN  [runningActual    |-> runningActual,
         runningProjected |-> runningActual,
         points |-> << [name          |-> md[i].name,
                        actual        |-> Val(runningActual),
                        realActual    |-> Val(calculateRealValue(runningActual,
                                                                 cumulativeInflation)),
                        projected     |-> Null,
                        realProjected |-> Null,
                        range         |-> Null,
                        isUnrecorded  |-> i < startMonthIndex,
                        inflation     |-> cumulativeInflation] >>]

\* Faulty variant of CurrentMargin: stdDev * 2
CurrentMarginWide(sd) == SqrtScale(sd, RatOfInt(2))

\* stdDev * 0.5
CurrentMargin(sd) == SqrtScale(sd, Rat(1, 2))

\* Faulty variant of CurrentStep: the projection continues from the actual balance of
\* the current month
CurrentStepFromActual(i, acc, md, avg, sd) ==
    LET cumulativeInflation == CumulativeInflation(i)
        currentActualBalance == RatAdd(acc.runningActual, RatOfInt(md[i].netSavings))
        runningProjected == RatAdd(currentActualBalance, avg)
    IN  [runningActual    |-> currentActualBalance,
         runningProjected |-> runningProjected,
         points |-> << [name          |-> md[i].name,
                        actual        |-> Val(currentActualBalance),
                        realActual    |-> Val(calculateRealValue(currentActualBalance,
                                                                 cumulativeInflation)),
                        projected     |-> Val(runningProjected),
                        realProjected |-> Val(calculateRealValue(runningProjected,
                                                                 cumulativeInflation)),
                        range         |-> Val(<<RatMinusSqrt(runningProjected,
                                                             SqrtScale(sd, Rat(1, 2))),
                                                RatPlusSqrt(runningProjected,
                                                            SqrtScale(sd, Rat(1, 2)))>>),
                        isUnrecorded  |-> FALSE,
                        inflation     |-> cumulativeInflation] >>]

\* The second branch of the loop body
CurrentStep(i, acc, md, avg, sd) ==
    LET cumulativeInflation == CumulativeInflation(i)
        currentActualBalance == RatAdd(acc.runningActual, RatOfInt(md[i].netSavings))
        runningProjected == RatAdd(acc.runningProjected, avg)
    IN  [runningActual    |-> currentActualBalance,
         runningProjected |-> runningProjected,
         points |-> << [name          |-> md[i].name,
                        actual        |-> Val(currentActualBalance),
                        realActual    |-> Val(calculateRealValue(currentActualBalance,
                                                                 cumulativeInflation)),
                        projected     |-> Val(runningProjected),
                        realProjected |-> Val(calculateRealValue(runningProjected,
                                                                 cumulativeInflation)),
                        range         |-> Val(<<RatMinusSqrt(runningProjected,
                                                             CurrentMargin(sd)),
                                                RatPlusSqrt(runningProjected,
                                                            CurrentMargin(sd))>>),
                        isUnrecorded  |-> FALSE,
                        inflation     |-> cumulativeInflation] >>]

\* margin = stdDev * Math.sqrt(monthsIntoFuture) * 1.5
FutureMargin(i, sd) ==
    SqrtScale(SqrtMul(sd, Sqrt(RatOfInt(i - currentMonthIndex))), Rat(3, 2))

\* The third branch of the loop body
FutureStep(i, acc, md, avg, sd) ==
    LET cumulativeInflation == CumulativeInflation(i)
        runningProjected == RatAdd(acc.runningProjected, avg)
    IN  [runningActual    |-> acc.runningActual,
         runningProjected |-> runningProjected,
         points |-> << [name          |-> md[i].name,
                        actual        |-> Null,
                        realActual    |-> Null,
                        projected     |-> Val(runningProjected),
                        realProjected |-> Val(calculateRealValue(runningProjected,
                                                                 cumulativeInflation)),
                        range         |-> Val(<<RatMinusSqrt(runningProjected,
                                                             FutureMargin(i, sd)),
                                                RatPlusSqrt(runningProjected,
                                                            FutureMargin(i, sd))>>),
                        isUnrecorded  |-> FALSE,
                        inflation     |-> cumulativeInflation] >>]

\* One iteration of "for (let i = 0; i < 12; i++)": no branch taken pushes nothing
LoopBody(i, acc, md, avg, sd) ==
    IF isPast(i) THEN PastStep(i, acc, md, avg, sd)
    ELSE IF isCurrent(i) THEN CurrentStep(i, acc, md, avg, sd)
    ELSE IF isFuture(i) THEN FutureStep(i, acc, md, avg, sd)
    ELSE [runningActual |-> acc.runningActual, runningProjected |-> acc.runningProjected,
          points |-> <<>>]

RECURSIVE ProjectionLoop(_, _, _, _, _)
\* The iterations i..11 of the loop, each with the accumulators it leaves
ProjectionLoop(i, acc, md, avg, sd) ==
    IF i >= MonthsPerYear THEN <<>>
    ELSE LET after == LoopBody(i, acc, md, avg, sd)
         IN  <<after>> \o ProjectionLoop(i + 1, after, md, avg, sd)

\* The loop of projectionData over the monthly data md: runningActual and
\* runningProjected start at baseBalance
IterationsOf(md) ==
    ProjectionLoop(0, [runningActual |-> RatOfInt(baseBalance),
                       runningProjected |-> RatOfInt(baseBalance)],
                   md, AvgSavingsOf(md), StdDevOf(md, AvgSavingsOf(md)))

RECURSIVE Pushed(_)
\* result: the points pushed by the iterations, in order
Pushed(iterations) ==
    IF iterations = <<>> THEN <<>> ELSE iterations[1].points \o Pushed(Tail(iterations))

\* projectionData of the monthly data md
ProjectionOf(md) == Pushed(IterationsOf(md))

\* projectionData
projectionData == ProjectionOf(monthlyData)

-----------------------------------------------------------------------------
(* The expense ledger as a state machine *)

\* The ledger App loads from storage: one row of the selected year (its category has a
\* breakdown) and one row of the previous year (its category has none)
InitialData ==
    << [id |-> 1, year |-> CurrentYear - 1, category |-> "Salud", name |-> "UTE",
        amounts |-> ArrSet(ArrayFill12, 0, 1), transactions |-> <<>>],
       [id |-> 2, year |-> CurrentYear, category |-> "Gastos Variables", name |-> "ute",
        amounts |-> ArrayFill12, transactions |-> <<>>] >>

\* The income App loads from storage: a row of the previous year that earned 1 in
\* January, and two rows of the selected year
InitialIncome ==
    << [id |-> 3, year |-> CurrentYear - 1, category |-> "Salud", name |-> "UTE",
        amounts |-> ArrSet(ArrayFill12, 0, 1)],
       [id |-> 4, year |-> CurrentYear, category |-> "Salud", name |-> "UTE",
        amounts |-> ArrayFill12],
       [id |-> 5, year |-> CurrentYear, category |-> "Gastos Variables", name |-> "ute",
        amounts |-> ArrayFill12] >>

\* The application after loading expenses, incomes and the clock's month: the sheets
\* and the Dashboard after their first render and effects
\* tags[0].id once the tags are loaded: the tag every product of the model carries
FirstTagId == "uncategorized"

\* ProductManager: the form as useState leaves it and as resetForm leaves it; an
\* editingId of 0 stands for null
EmptyForm == [isAdding |-> FALSE, editingId |-> 0, name |-> <<>>, price |-> <<>>,
              tagId |-> FirstTagId]

InitState(expenses, incomes, month, catalog) ==
    /\ data = expenses
    /\ selectedYear = CurrentYear
    /\ yearConfigs = <<>>
    /\ localData = FilterYear(expenses, CurrentYear, TRUE)
    /\ saveStatus = "saved"
    /\ autoSaveTimer = NoTimer
    /\ editingTransactions = NoCell
    /\ currentMonthIndex = month
    /\ defaultMonth = (IF month >= startMonthIndex THEN month ELSE startMonthIndex)
    /\ parsedItems = <<>>
    /\ removedCount = 0
    /\ importStep = "input"
    /\ nextId = 10
    /\ ops = 0
    /\ incomeData = incomes
    /\ globalBaseBalance = 0
    /\ incLocalData = currentYearIncome
    /\ localSavings = SavingsText(openingBalanceForSelectedYear)
    /\ incSaveStatus = "saved"
    /\ incTimer = NoTimer
    /\ products = catalog
    /\ viewMode = "manage"
    /\ productForm = EmptyForm
    /\ simMonth = month
    /\ simYear = CurrentYear + 1
    /\ enableInvestment = FALSE
    /\ annualReturnRate = 0

\* Dashboard: useState<number[]>([]) for inflationRates; no helper called yet
\* The years the chevrons reach
RequestYears == (CurrentYear - MaxYearSpan)..(CurrentYear + MaxYearSpan)

\* No call of getMonthlyInflation is waiting for its answer
NoRequests == [y \in RequestYears |-> 0]

NoRatesYet == inflationRates = <<>> /\ calc = NoCall

\* The machines in which the rates arrive at any time do not follow the calls
NothingLoaded == NoRatesYet /\ inflationRequests = NoRequests

Init == InitState(InitialData, InitialIncome, 0, <<>>) /\ NothingLoaded

Next ==
    \/ \E id \in ItemIds(localData), m \in UserMonths, val \in InputStrings :
          HandleValueChange(id, m, val)
    \/ \E id \in ItemIds(localData), c \in RowCategories : HandleCategoryChange(id, c)
    \/ AutoSaveFire
    \/ \E id \in ItemIds(localData), m \in UserMonths : HandleDoubleClick(id, m)
    \/ CloseTransactionModal
    \/ \E a \in TxAmounts : ModalAddTransaction(a)
    \/ \E k \in 1..MaxOps : ModalDeleteTransaction(k)
    \/ \E n \in Names, c \in RowCategories : HandleAddItem(n, c)
    \/ \E id \in ItemIds(localData) : ConfirmDelete(id)
    \/ HandleCopyFromPreviousYear
    \/ \E id \in ItemIds(currentYearData), m \in UserMonths, a \in InputStrings :
          QuickAddSubmit(id, m, a)
    \/ \E r \in ParserResults : HandleAnalyze(r)
    \/ \E m \in UserMonths : SetDefaultMonth(m)
    \/ HandleConfirmImport
    \/ HandleCloseImport
    \/ \E m \in UserMonths : HandleUpdateYearConfig(m)
    \/ HandleClean

Spec == Init /\ [][Next]_vars

-----------------------------------------------------------------------------
(* The income sheet as a state machine *)

NextIncome ==
    \/ \E id \in ItemIds(incLocalData), m \in UserMonths, val \in InputStrings :
          IncHandleValueChange(id, m, val)
    \/ \E id \in ItemIds(incLocalData), c \in RowCategories : IncHandleCategoryChange(id, c)
    \/ \E id \in ItemIds(incLocalData), n \in Names : IncHandleNameChange(id, n)
    \/ \E from \in 1..Len(incLocalData), to \in 1..Len(incLocalData) : IncHandleDrop(from, to)
    \/ \E val \in SavingsStrings : HandleSavingsChange(val)
    \/ \E n \in Names, c \in RowCategories : IncHandleAddItem(n, c)
    \/ IncAutoSaveFire

SpecIncome == Init /\ [][NextIncome]_vars

\* The timer's callback runs once 500 ms pass without another call of triggerAutoSave
FairSpecIncome == SpecIncome /\ WF_vars(IncAutoSaveFire)

-----------------------------------------------------------------------------
(* The Dashboard as a state machine *)

\* A JavaScript array of twelve amounts
ArrayOf(seq) == [len |-> MonthsPerYear, at |-> [i \in 0..(MonthsPerYear - 1) |-> seq[i + 1]]]

\* The expenses loaded: a closed year and the running year with uneven months
ProjectionExpenses ==
    << [id |-> 1, year |-> CurrentYear - 1, category |-> "Salud", name |-> "UTE",
        amounts |-> ArrayOf(<<2, 0, 1, 0, 0, 0, 0, 0, 0, 0, 0, 4>>),
        transactions |-> <<>>],
       [id |-> 2, year |-> CurrentYear, category |-> "Gastos Variables", name |-> "ute",
        amounts |-> ArrayOf(<<1, 4, 1, 5, 9, 2, 6, 5, 3, 5, 8, 9>>),
        transactions |-> <<>>] >>

\* The incomes loaded
ProjectionIncome ==
    << [id |-> 3, year |-> CurrentYear - 1, category |-> "Salud", name |-> "UTE",
        amounts |-> ArrayOf(<<3, 3, 0, 0, 0, 0, 0, 0, 0, 0, 0, 2>>)],
       [id |-> 4, year |-> CurrentYear, category |-> "Salud", name |-> "UTE",
        amounts |-> ArrayOf(<<7, 7, 7, 7, 7, 7, 8, 7, 7, 7, 7, 7>>)] >>

\* The Dashboard opens in any month of the current year
InitProj == \E month \in 0..(MonthsPerYear - 1) :
                InitState(ProjectionExpenses, ProjectionIncome, month, <<>>) /\ NothingLoaded

\* The chevrons of the header: setSelectedYear(y => y - 1) and (y => y + 1); the
\* sheets show the rows and the opening balance of the year reached
YearChanged(y, pending) ==
    /\ SheetReachable
    /\ ~autoSaveTimer.pending
    /\ ~incTimer.pending
    /\ y \in {selectedYear - 1, selectedYear + 1}
    /\ y >= CurrentYear - MaxYearSpan
    /\ y <= CurrentYear + MaxYearSpan
    /\ Tick
    /\ selectedYear' = y
    /\ localData' = FilterYear(data, y, TRUE)
    /\ incLocalData' = FilterYear(incomeData, y, TRUE)
    /\ localSavings' = SavingsText(globalBaseBalance + SumBefore(incomeData, y)
                                     - SumBefore(data, y))
    /\ UNCHANGED <<data, saveStatus, autoSaveTimer, editingTransactions, yearConfigs,
                   parsedItems, removedCount, importStep, defaultMonth, nextId,
                   incomeData, globalBaseBalance, incSaveStatus, incTimer,
                   currentMonthIndex, viewMode, calc, products, inflationRates, simVars,
                   productForm>>
    /\ inflationRequests' = pending

\* The year changes in the machines in which the rates arrive at any time
SelectYear(y) == YearChanged(y, inflationRequests)

\* InflationService.getMonthlyInflation(year).then(setInflationRates)
InflationLoaded(rates) ==
    /\ inflationRates # rates
    /\ inflationRates' = rates
    /\ UNCHANGED <<ledgerVars, incomeVars, currentMonthIndex, viewMode, calc, products, simVars,
                   productForm, inflationRequests>>

NextProj ==
    \/ \E y \in {selectedYear - 1, selectedYear + 1} : SelectYear(y)
    \/ \E idx \in StartMonths : HandleUpdateYearConfig(idx)
    \/ \E id \in ItemIds(currentYearData), a \in InputStrings :
          QuickAddSubmit(id, currentMonthIndex, a)
    \/ \E rates \in RateTables : InflationLoaded(rates)

SpecProj == InitProj /\ [][NextProj]_vars

-----------------------------------------------------------------------------
(* Dashboard: the calls of the inflation service and their answers *)

\* The two effects of the Dashboard that depend on [year] each call
\* getMonthlyInflation(year), at mount and whenever the year changes
EffectsOnYear == 2

\* What getMonthlyInflation(year) resolves to: in the model, a table of its own for
\* each year (the variation of January tells the years apart)
ServiceRates(year) ==
    [m \in 1..MonthsPerYear |-> IF m = 1 THEN year - CurrentYear + 1 ELSE 0]

\* The calls waiting once the effects have run for the year
Requested(pending, year) == [pending EXCEPT ![year] = @ + EffectsOnYear]

\* The chevrons of the header while the Dashboard is shown: the year changes and the
\* effects call the service for the year reached; nothing cancels the earlier calls
SelectYearAndLoad(y) == YearChanged(y, Requested(inflationRequests, y))

\* .then(setInflationRates) of one of the calls made for the year: the promises
\* resolve in any order
InflationResolved(year) ==
    /\ inflationRequests[year] > 0
    /\ inflationRequests' = [inflationRequests EXCEPT ![year] = @ - 1]
    /\ inflationRates' = ServiceRates(year)
    /\ UNCHANGED <<ledgerVars, incomeVars, simVars, products, viewMode, productForm, calc,
                   currentMonthIndex>>

\* The Dashboard mounted in January or in July: the effects have called the service
\* for the current year
InitRates == \E month \in {0, 6} :
                 /\ InitState(ProjectionExpenses, ProjectionIncome, month, <<>>)
                 /\ NoRatesYet
                 /\ inflationRequests = Requested(NoRequests, CurrentYear)

NextRates ==
    \/ \E y \in {selectedYear - 1, selectedYear + 1} : SelectYearAndLoad(y)
    \/ \E y \in RequestYears : InflationResolved(y)

SpecRates == InitRates /\ [][NextRates]_vars

-----------------------------------------------------------------------------
(* Dashboard: wealth and the future simulator *)

RECURSIVE SumNetSavingsClosedOnly(_, _)
\* Faulty variant of SumNetSavings: the current month is left out
SumNetSavingsClosedOnly(md, idx) ==
    IF idx >= MonthsPerYear THEN 0
    ELSE (IF ~isCurrentYear \/ idx < currentMonthIndex THEN md[idx].netSavings ELSE 0)
             + SumNetSavingsClosedOnly(md, idx + 1)

RECURSIVE SumNetSavings(_, _)
\* The netSavings the reduce of currentLiquidWealth adds, from month idx on: every
\* month of another year, the months up to the current one of the current year
SumNetSavings(md, idx) ==
    IF idx >= MonthsPerYear THEN 0
    ELSE (IF ~isCurrentYear \/ idx <= currentMonthIndex THEN md[idx].netSavings ELSE 0)
             + SumNetSavings(md, idx + 1)

\* currentLiquidWealth = monthlyData.reduce(..., baseBalance)
currentLiquidWealth == baseBalance + SumNetSavings(monthlyData, 0)

RECURSIVE SumClosedNetSavings(_, _)
\* The netSavings the reduce of closedMonthsWealth adds, from month idx on: every
\* month of another year, the months before the current one of the current year
SumClosedNetSavings(md, idx) ==
    IF idx >= MonthsPerYear THEN 0
    ELSE (IF ~isCurrentYear \/ idx < currentMonthIndex THEN md[idx].netSavings ELSE 0)
             + SumClosedNetSavings(md, idx + 1)

\* closedMonthsWealth = monthlyData.reduce(..., baseBalance)
closedMonthsWealth == baseBalance + SumClosedNetSavings(monthlyData, 0)

RECURSIVE SumRates(_)
\* inflationRates.reduce((a, b) => a + b, 0)
SumRates(rates) == IF rates = <<>> THEN 0 ELSE rates[1] + SumRates(Tail(rates))

\* avgMonthlyInflation: the mean of the loaded rates, 0.5 when none is loaded
avgMonthlyInflation ==
    IF Len(inflationRates) > 0 THEN Rat(SumRates(inflationRates), Len(inflationRates))
    ELSE Rat(1, 2)

\* A value of the simulator is a number, or the term of a floating-point operation
\* whose result is not a ratio of small integers
IsNumber(x) == "n" \in DOMAIN x

Term(op, a, b) == [op |-> op, a |-> a, b |-> b]

\* Math.pow(base, exponent): 1 for the exponent 0, the base for the exponent 1
MathPow(base, exponent) ==
    IF exponent = RatOfInt(0) \/ base = RatOfInt(1) THEN RatOfInt(1)
    ELSE IF exponent = RatOfInt(1) THEN base
    ELSE Term("pow", base, exponent)

\* a op b for the operators +, -, * and / of the simulator
Arith(op, a, b) ==
    IF IsNumber(a) /\ IsNumber(b)
    THEN CASE op = "+" -> RatAdd(a, b)
           [] op = "-" -> RatSub(a, b)
           [] op = "*" -> JsMul(a, b)
           [] op = "/" -> JsDiv(a, b)
    ELSE Term(op, a, b)

\* Faulty variant of TargetNotAfterNow: only the year is compared
TargetYearBeforeNow == simYear < CurrentYear

\* The guard of simulationResult:
\* simYear < currentYear || (simYear === currentYear && simMonth <= currentMonthIndex)
TargetNotAfterNow ==
    simYear < CurrentYear \/ (simYear = CurrentYear /\ simMonth <= currentMonthIndex)

\* Faulty variant of MonthsUntilTarget: the month of the clock is not subtracted
MonthsUntilTargetFromJanuary == ((simYear - CurrentYear) * 12) + simMonth

\* monthsDiff = ((simYear - currentYear) * 12) + (simMonth - currentMonthIndex)
MonthsUntilTarget == ((simYear - CurrentYear) * 12) + (simMonth - currentMonthIndex)

\* Faulty variant of InvestmentApplies: the rate is not looked at
InvestmentAppliesWhenEnabled == enableInvestment

\* if (enableInvestment && annualReturnRate > 0)
InvestmentApplies == enableInvestment /\ annualReturnRate > 0

\* useMemo simulationResult
simulationResult ==
    LET wealth == RatOfInt(currentLiquidWealth)
    IN  IF TargetNotAfterNow
        THEN [nominal |-> wealth, real |-> wealth, investedNominal |-> wealth,
              investmentProfit |-> RatOfInt(0), monthsDiff |-> 0]
        ELSE LET monthsDiff == MonthsUntilTarget
                 months == RatOfInt(monthsDiff)
                 futureNominal == RatAdd(wealth, RatMul(months, avgSavings))
                 cumulativeInflationFactor ==
                     MathPow(RatAdd(RatOfInt(1), RatDiv(avgMonthlyInflation, RatOfInt(100))),
                             months)
                 futureReal == Arith("/", futureNominal, cumulativeInflationFactor)
                 invests == InvestmentApplies
                 monthlyRate ==
                     Arith("-", MathPow(Rat(100 + annualReturnRate, 100), Rat(1, 12)),
                           RatOfInt(1))
                 growth == MathPow(Arith("+", RatOfInt(1), monthlyRate), months)
                 futureLumpSum == Arith("*", wealth, growth)
                 futureContributions ==
                     IF IsNumber(monthlyRate) => monthlyRate.n > 0
                     THEN Arith("*", avgSavings,
                                Arith("/", Arith("-", growth, RatOfInt(1)), monthlyRate))
                     ELSE RatMul(avgSavings, months)
                 investedNominal ==
                     IF invests THEN Arith("+", futureLumpSum, futureContributions)
                     ELSE futureNominal
             IN  [nominal |-> futureNominal, real |-> futureReal,
                  investedNominal |-> investedNominal,
                  investmentProfit |-> (IF invests
                                        THEN Arith("-", investedNominal, futureNominal)
                                        ELSE RatOfInt(0)),
                  monthsDiff |-> monthsDiff]

\* Months in which the Dashboard is opened
SimClockMonths == {0, 6, 11}

\* Months picked in the month select of the simulator
TargetMonths == {0, 5, 6, 11}

\* Rates typed into the annual return input
TypedReturnRates == {0, -2}

InitSim == \E month \in SimClockMonths :
               InitState(ProjectionExpenses, ProjectionIncome, month, <<>>) /\ NothingLoaded

\* The month select of the simulator: setSimMonth(Number(e.target.value))
SetSimMonth(m) ==
    /\ m \in 0..(MonthsPerYear - 1)
    /\ m # simMonth
    /\ simMonth' = m
    /\ UNCHANGED <<ledgerVars, incomeVars, inflationRates, simYear, enableInvestment,
                   annualReturnRate, products, viewMode, calc, currentMonthIndex, productForm,
                   inflationRequests>>

\* The year select of the simulator, which offers the current year and the years
\* after it: setSimYear(Number(e.target.value))
SetSimYear(y) ==
    /\ y \in CurrentYear..(CurrentYear + MaxSimYearsAhead)
    /\ y # simYear
    /\ simYear' = y
    /\ UNCHANGED <<ledgerVars, incomeVars, inflationRates, simMonth, enableInvestment,
                   annualReturnRate, products, viewMode, calc, currentMonthIndex, productForm,
                   inflationRequests>>

\* The switch: setEnableInvestment(!enableInvestment)
ToggleInvestment ==
    /\ enableInvestment' = ~enableInvestment
    /\ UNCHANGED <<ledgerVars, incomeVars, inflationRates, simMonth, simYear,
                   annualReturnRate, products, viewMode, calc, currentMonthIndex, productForm,
                   inflationRequests>>

\* The rate input, shown while investment is enabled:
\* setAnnualReturnRate(Number(e.target.value))
SetAnnualReturnRate(rate) ==
    /\ enableInvestment
    /\ rate # annualReturnRate
    /\ annualReturnRate' = rate
    /\ UNCHANGED <<ledgerVars, incomeVars, inflationRates, simMonth, simYear,
                   enableInvestment, products, viewMode, calc, currentMonthIndex, productForm,
                   inflationRequests>>

\* handleSetInvestmentPreset(type) for the buttons 'conservative' and 'aggressive',
\* shown while investment is enabled
handleSetInvestmentPreset(type) ==
    /\ enableInvestment
    /\ type \in {"conservative", "aggressive"}
    /\ annualReturnRate' = (IF type = "conservative" THEN 5 ELSE 10)
    /\ annualReturnRate' # annualReturnRate
    /\ UNCHANGED <<ledgerVars, incomeVars, inflationRates, simMonth, simYear,
                   enableInvestment, products, viewMode, calc, currentMonthIndex, productForm,
                   inflationRequests>>

NextSim ==
    \/ \E m \in TargetMonths : SetSimMonth(m)
    \/ \E y \in CurrentYear..(CurrentYear + MaxSimYearsAhead) : SetSimYear(y)
    \/ ToggleInvestment
    \/ \E rate \in TypedReturnRates : SetAnnualReturnRate(rate)
    \/ \E type \in {"conservative", "aggressive"} : handleSetInvestmentPreset(type)
    \/ \E rates \in RateTables : InflationLoaded(rates)
    \/ \E y \in {selectedYear - 1, selectedYear + 1} : SelectYear(y)
    \/ \E idx \in StartMonths : HandleUpdateYearConfig(idx)

SpecSim == InitSim /\ [][NextSim]_vars

-----------------------------------------------------------------------------
(* Strings whose characters matter: sequences of one-character strings *)

DigitChars == <<"0", "1", "2", "3", "4", "5", "6", "7", "8", "9">>

IsDigit(c) == \E k \in 1..10 : DigitChars[k] = c

DigitVal(c) == (CHOOSE k \in 1..10 : DigitChars[k] = c) - 1

RECURSIVE NatToStr(_)
\* String(n) and `${n}` for a non-negative integer
NatToStr(n) ==
    IF n < 10 THEN <<DigitChars[n + 1]>>
    ELSE NatToStr(n \div 10) \o <<DigitChars[(n % 10) + 1]>>

RECURSIVE StrToNat(_)
\* Number(s) and parseFloat(s) for a text of digits; Number('') is 0
StrToNat(s) ==
    IF s = <<>> THEN 0
    ELSE 10 * StrToNat(SubSeq(s, 1, Len(s) - 1)) + DigitVal(s[Len(s)])

\* String(n).padStart(2, '0')
PadStart2(s) == IF Len(s) < 2 THEN <<"0">> \o s ELSE s

\* UTF-16 code unit of the characters of a date text
CharCode(c) == IF IsDigit(c) THEN 48 + DigitVal(c) ELSE 45

RECURSIVE StrLess(_, _)
\* a < b on strings: code units compared from the left, a proper prefix is smaller
StrLess(a, b) ==
    IF b = <<>> THEN FALSE
    ELSE IF a = <<>> THEN TRUE
    ELSE IF a[1] # b[1] THEN CharCode(a[1]) < CharCode(b[1])
    ELSE StrLess(Tail(a), Tail(b))

RECURSIVE SplitDash(_)
\* s.split('-')
SplitDash(s) ==
    IF \A i \in 1..Len(s) : s[i] # "-" THEN <<s>>
    ELSE LET k == CHOOSE i \in 1..Len(s) : s[i] = "-" /\ \A j \in 1..(i - 1) : s[j] # "-"
         IN  <<SubSeq(s, 1, k - 1)>> \o SplitDash(SubSeq(s, k + 1, Len(s)))

-----------------------------------------------------------------------------
(* Calendar dates of the transaction modal *)

\* new Date(): the local calendar day of the clock
Today == [year |-> CurrentYear, month |-> currentMonthIndex, day |-> 15]

\* [getFullYear(), padStart(getMonth() + 1), padStart(getDate())].join('-')
TodayStr ==
    NatToStr(Today.year) \o <<"-">> \o PadStart2(NatToStr(Today.month + 1)) \o <<"-">>
        \o PadStart2(NatToStr(Today.day))

\* The value of <input type="date"> for a chosen day: yyyy-mm-dd, the year written
\* with at least four digits
DateInputValue(date) ==
    LET y == NatToStr(date.year)
        pad == [i \in 1..(4 - Len(y)) |-> "0"]
    IN  pad \o y \o <<"-">> \o PadStart2(NatToStr(date.month + 1)) \o <<"-">>
            \o PadStart2(NatToStr(date.day))

\* Days picked in the date input: today and the 28th of the month before
PickedDays ==
    { Today,
      IF Today.month = 0 THEN [year |-> Today.year - 1, month |-> 11, day |-> 28]
                         ELSE [Today EXCEPT !.month = Today.month - 1, !.day = 28] }

\* Texts the entryDate state can hold
EntryDates == {DateInputValue(d) : d \in PickedDays}

\* The clock of the device when a purchase is added, in minutes after midnight
ClockMinutes == {540}

\* const [year, month, day] = entryDate.split('-').map(Number);
\* new Date(year, month - 1, day, now.getHours(), now.getMinutes())
EntryDateTime(entryDate, minutes) ==
    LET parts == SplitDash(entryDate)
    IN  [year |-> StrToNat(parts[1]), month |-> StrToNat(parts[2]) - 1,
         day |-> StrToNat(parts[3]), minutes |-> minutes]

\* a is an earlier calendar day than b
DayBefore(a, b) ==
    \/ a.year < b.year
    \/ a.year = b.year /\ a.month < b.month
    \/ a.year = b.year /\ a.month = b.month /\ a.day < b.day

\* new Date(a).getTime() < new Date(b).getTime()
TimeBefore(a, b) ==
    \/ DayBefore(a, b)
    \/ a.year = b.year /\ a.month = b.month /\ a.day = b.day /\ a.minutes < b.minutes

\* new Date(date).getMonth()
GetMonth(date) == date.month

-----------------------------------------------------------------------------
(* Product catalog and the catalog mode of the transaction modal *)

\* Product names of the model
Leche == <<"L", "e", "c", "h", "e">>

Pan == <<"P", "a", "n">>

\* The catalog loaded by loadAllData
InitialProducts ==
    << [id |-> 1, name |-> Leche, defaultPrice |-> 40, tagId |-> "uncategorized"],
       [id |-> 2, name |-> Pan, defaultPrice |-> 30, tagId |-> "uncategorized"] >>

\* Texts of the price input once a product is selected: emptied, or a typed price
PriceTexts == { <<>>, <<"6", "0">> }

\* Texts of the quantity input
QtyTexts == { <<>>, <<"2">> }

\* ExpenseEntry.handleUpdateProductFromModal(updatedProduct): the list given to
\* onUpdateProducts
handleUpdateProductFromModal(updatedProduct) ==
    [i \in 1..Len(products) |->
        IF products[i].id = updatedProduct.id THEN updatedProduct ELSE products[i]]

\* A faulty date test that treats every purchase as a purchase of today
isHistoricalNever(entryDate) == FALSE

\* isHistorical = entryDate < todayStr
isHistorical(entryDate) == StrLess(entryDate, TodayStr)

\* `${selectedProduct.name} (${catalogQty} x $${price})`
CatalogDescription(name, catalogQty, price) ==
    name \o <<" ", "(">> \o catalogQty \o <<" ", "x", " ", "$">> \o NatToStr(price) \o <<")">>

\* TransactionModal.handleCatalogAdd with the form holding selectedProduct,
\* priceOverride, catalogQty and entryDate, the clock showing the given minutes
HandleCatalogAdd(selectedProduct, priceOverride, catalogQty, entryDate, minutes) ==
    LET price == IF priceOverride # <<>> THEN StrToNat(priceOverride)
                 ELSE selectedProduct.defaultPrice
        qty == StrToNat(catalogQty)
        total == price * qty
        newItem == [id |-> nextId,
                    description |-> CatalogDescription(selectedProduct.name, catalogQty, price),
                    amount |-> total,
                    date |-> EntryDateTime(entryDate, minutes),
                    productId |-> selectedProduct.id,
                    unitPrice |-> price,
                    quantity |-> qty]
    IN  /\ editingTransactions.open
        /\ qty > 0
        /\ Tick
        /\ nextId' = nextId + 1
        /\ ImmediateUpdate(MapTransactionsSave(localData, editingTransactions.itemId,
                                               editingTransactions.monthIndex,
                                               Append(ModalTransactions, newItem)))
        /\ products' = (IF ~isHistorical(entryDate) /\ price # selectedProduct.defaultPrice
                        THEN handleUpdateProductFromModal(
                                 [selectedProduct EXCEPT !.defaultPrice = price])
                        ELSE products)
        /\ UNCHANGED <<saveStatus, autoSaveTimer, editingTransactions, yearConfigs,
                       selectedYear, parsedItems, removedCount, importStep, defaultMonth,
                       currentMonthIndex, viewMode, calc, incomeVars, inflationRates, simVars,
                       productForm, inflationRequests>>

\* TransactionModal.handleManualAdd without the calculator: the description and the
\* amount typed, no product, no unit price
HandleManualAdd(newDesc, newAmount, entryDate, minutes) ==
    LET newItem == [id |-> nextId,
                    description |-> newDesc,
                    amount |-> StrToNat(newAmount),
                    date |-> EntryDateTime(entryDate, minutes)]
    IN  /\ editingTransactions.open
        /\ newDesc # <<>>
        /\ newAmount # <<>>
        /\ Tick
        /\ nextId' = nextId + 1
        /\ HandleTransactionsSave(Append(ModalTransactions, newItem))

\* ProductManager: setViewMode(mode); the catalog page is shown while no modal of the
\* sheet is open
SetViewMode(mode) ==
    /\ SheetReachable
    /\ viewMode # mode
    /\ Tick
    /\ viewMode' = mode
    /\ UNCHANGED <<data, localData, saveStatus, autoSaveTimer, editingTransactions,
                   yearConfigs, selectedYear, parsedItems, removedCount, importStep,
                   defaultMonth, nextId, incomeVars, inflationRates, products, calc,
                   currentMonthIndex, simVars, productForm, inflationRequests>>

-----------------------------------------------------------------------------
(* ProductManager: price history of a product and the analysis report *)

UpperChars == <<"A", "B", "C", "D", "E", "F", "G", "H", "I", "J", "K", "L", "M",
                "N", "O", "P", "Q", "R", "S", "T", "U", "V", "W", "X", "Y", "Z">>

LowerChars == <<"a", "b", "c", "d", "e", "f", "g", "h", "i", "j", "k", "l", "m",
                "n", "o", "p", "q", "r", "s", "t", "u", "v", "w", "x", "y", "z">>

\* The lower-case letter of each upper-case letter
LowerOf == [c \in {UpperChars[k] : k \in 1..26} |->
               LowerChars[CHOOSE k \in 1..26 : UpperChars[k] = c]]

\* String.prototype.toLowerCase, character by character
ToLowerChars(s) ==
    [i \in 1..Len(s) |-> IF s[i] \in DOMAIN LowerOf THEN LowerOf[s[i]] ELSE s[i]]

\* hay.includes(needle)
Includes(hay, needle) ==
    \E k \in 0..(Len(hay) - Len(needle)) : \A j \in 1..Len(needle) : hay[k + j] = needle[j]

RECURSIVE SkipSpaces(_, _)
\* \s* from position i: the position after the white space
SkipSpaces(s, i) == IF i <= Len(s) /\ s[i] = " " THEN SkipSpaces(s, i + 1) ELSE i

RECURSIVE PriceRunEnd(_, _)
\* [\d\.]+ from position i, greedy: the position after the digits and dots
PriceRunEnd(s, i) ==
    IF i <= Len(s) /\ (IsDigit(s[i]) \/ s[i] = ".") THEN PriceRunEnd(s, i + 1) ELSE i

\* /x\s*\$([\d\.]+)/ matches at position i
MatchAt(s, i) ==
    /\ s[i] = "x"
    /\ LET j == SkipSpaces(s, i + 1)
       IN  j <= Len(s) /\ s[j] = "$" /\ PriceRunEnd(s, j + 1) > j + 1

RECURSIVE FirstMatch(_, _)
\* The leftmost position from i on where the pattern matches, 0 when there is none
FirstMatch(s, i) ==
    IF i > Len(s) THEN 0 ELSE IF MatchAt(s, i) THEN i ELSE FirstMatch(s, i + 1)

\* description.match(/x\s*\$([\d\.]+)/): the captured text of the leftmost match, or null
MatchPrice(s) ==
    LET i == FirstMatch(s, 1)
        j == SkipSpaces(s, i + 1)
    IN  IF i = 0 THEN Null ELSE Val(SubSeq(s, j + 1, PriceRunEnd(s, j + 1) - 1))

RECURSIVE DigitRunEnd(_, _)
\* The position after the digits that start at position i
DigitRunEnd(s, i) == IF i <= Len(s) /\ IsDigit(s[i]) THEN DigitRunEnd(s, i + 1) ELSE i

RECURSIVE Pow10(_)
Pow10(k) == IF k = 0 THEN 1 ELSE 10 * Pow10(k - 1)

\* parseFloat of a text of digits and dots: the longest prefix that is a decimal
\* number, NaN when there is none
ParseFloatText(s) ==
    LET a == DigitRunEnd(s, 1)
        hasDot == a <= Len(s) /\ s[a] = "."
        b == IF hasDot THEN DigitRunEnd(s, a + 1) ELSE a
        int == SubSeq(s, 1, a - 1)
        frac == IF hasDot THEN SubSeq(s, a + 1, b - 1) ELSE <<>>
    IN  IF int = <<>> /\ frac = <<>> THEN NaN
        ELSE Rat(StrToNat(int) * Pow10(Len(frac)) + StrToNat(frac), Pow10(Len(frac)))

RECURSIVE ConcatMonths(_, _)
\* Object.values(item.transactions) flattened: the lists by ascending month key
ConcatMonths(f, keys) ==
    IF keys = {} THEN <<>>
    ELSE LET m == CHOOSE x \in keys : \A y \in keys : x <= y
         IN  f[m] \o ConcatMonths(f, keys \ {m})

RECURSIVE ScannedTransactions(_)
\* The transactions in the order allExpenses.forEach visits them
ScannedTransactions(rows) ==
    IF rows = <<>> THEN <<>>
    ELSE ConcatMonths(rows[1].transactions, DOMAIN rows[1].transactions)
             \o ScannedTransactions(Tail(rows))

\* Faulty variant of isMatch: the description is compared as it is written
isMatchCaseSensitive(t, product) ==
    \/ "productId" \in DOMAIN t /\ t.productId = product.id
    \/ Includes(t.description, product.name)

\* isMatch = t.productId === product.id ||
\*           t.description.toLowerCase().includes(product.name.toLowerCase())
isMatch(t, product) ==
    \/ "productId" \in DOMAIN t /\ t.productId = product.id
    \/ Includes(ToLowerChars(t.description), ToLowerChars(product.name))

\* Faulty variant of ResolvedUnitPrice: the description is never consulted
ResolvedUnitPriceStoredOnly(t) ==
    IF "unitPrice" \in DOMAIN t THEN RatOfInt(t.unitPrice) ELSE NaN

\* unitPrice after "let unitPrice = t.unitPrice; if (!unitPrice) { match ... }":
\* undefined is kept as NaN, which the test that follows rejects alike
ResolvedUnitPrice(t) ==
    IF "unitPrice" \in DOMAIN t /\ t.unitPrice # 0 THEN RatOfInt(t.unitPrice)
    ELSE LET match == MatchPrice(t.description)
         IN  IF ~match.isNull THEN ParseFloatText(match.v)
             ELSE IF "unitPrice" \in DOMAIN t THEN RatOfInt(t.unitPrice)
             ELSE NaN

\* The point pushed for a transaction whose price is resolved
HistoryPoint(t) ==
    LET unitPrice == ResolvedUnitPrice(t)
    IN  [date |-> t.date, price |-> unitPrice,
         realPrice |-> calculatePresentValue(unitPrice, GetMonth(t.date), currentMonthIndex,
                                             inflationRates)]

RECURSIVE ScanHistoryZeroAdmitted(_, _)
\* Faulty variant of ScanHistory: a price of 0 is pushed like any other number
ScanHistoryZeroAdmitted(txs, product) ==
    IF txs = <<>> THEN <<>>
    ELSE LET t == txs[1]
             unitPrice == ResolvedUnitPrice(t)
             pushed == /\ isMatch(t, product)
                       /\ "date" \in DOMAIN t
                       /\ unitPrice # NaN
         IN  (IF pushed THEN <<HistoryPoint(t)>> ELSE <<>>)
                 \o ScanHistoryZeroAdmitted(Tail(txs), product)

RECURSIVE ScanHistory(_, _)
\* history after the forEach loops of getProductHistory over the transactions txs
ScanHistory(txs, product) ==
    IF txs = <<>> THEN <<>>
    ELSE LET t == txs[1]
             unitPrice == ResolvedUnitPrice(t)
             pushed == /\ isMatch(t, product)
                       /\ "date" \in DOMAIN t
                       /\ unitPrice # NaN
                       /\ unitPrice.n # 0
         IN  (IF pushed THEN <<HistoryPoint(t)>> ELSE <<>>)
                 \o ScanHistory(Tail(txs), product)

\* Faulty variant of SortByDate: the points stay in their order of arrival
SortByDateArrival(h) == h

RECURSIVE SortByDate(_)
\* history.sort((a, b) => new Date(a.date).getTime() - new Date(b.date).getTime()):
\* ascending, points of equal time in their order of arrival
SortByDate(h) ==
    IF h = <<>> THEN <<>>
    ELSE LET k == CHOOSE x \in 1..Len(h) :
                      /\ \A y \in 1..Len(h) : ~TimeBefore(h[y].date, h[x].date)
                      /\ \A y \in 1..(x - 1) : TimeBefore(h[x].date, h[y].date)
         IN  <<h[k]>> \o SortByDate(SubSeq(h, 1, k - 1) \o SubSeq(h, k + 1, Len(h)))

\* getProductHistory(product)
getProductHistory(product) == SortByDate(ScanHistory(ScannedTransactions(data), product))

\* a < b on JavaScript numbers: false when either is NaN
JsLess(a, b) ==
    /\ a # NaN
    /\ b # NaN
    /\ IF IsFinite(a) \/ IsFinite(b) THEN a.n * b.d < b.n * a.d ELSE a.n < b.n

\* The callback of products.map in analysisReport: the entry of a product, or null
ReportItem(p) ==
    LET history == getProductHistory(p)
    IN  IF Len(history) < 2 THEN Null
        ELSE LET first == history[1]
                 last == history[Len(history)]
                 realVariation ==
                     JsMul(JsDiv(RatSub(last.realPrice, first.realPrice), first.realPrice),
                           RatOfInt(100))
             IN  Val([product |-> p, historyCount |-> Len(history),
                      firstDate |-> first.date, lastDate |-> last.date,
                      firstRealPrice |-> first.realPrice, lastRealPrice |-> last.realPrice,
                      lastNominalPrice |-> last.price, variation |-> realVariation])

RECURSIVE ReportItems(_)
\* products.map(...).filter(x => x !== null)
ReportItems(ps) ==
    IF ps = <<>> THEN <<>>
    ELSE LET item == ReportItem(ps[1])
         IN  (IF item.isNull THEN <<>> ELSE <<item.v>>) \o ReportItems(Tail(ps))

RECURSIVE SortByVariation(_, _)
\* items.sort((a, b) => b.variation - a.variation) (descending = TRUE) and
\* .sort((a, b) => a.variation - b.variation) (descending = FALSE); entries the
\* comparison does not separate keep their order
SortByVariation(items, descending) ==
    IF items = <<>> THEN <<>>
    ELSE LET Ahead(a, b) == IF descending THEN JsLess(b.variation, a.variation)
                            ELSE JsLess(a.variation, b.variation)
             k == CHOOSE x \in 1..Len(items) :
                      /\ \A y \in 1..Len(items) : ~Ahead(items[y], items[x])
                      /\ \A y \in 1..(x - 1) : Ahead(items[x], items[y])
         IN  <<items[k]>> \o SortByVariation(SubSeq(items, 1, k - 1)
                                                 \o SubSeq(items, k + 1, Len(items)),
                                             descending)

\* Faulty variant of InClass: stable has no lower threshold
InClassNoFloor(v, class) ==
    CASE class = "increases" -> JsLess(RatOfInt(1), v)
      [] class = "drops"     -> JsLess(v, RatOfInt(-1))
      [] class = "stable"    -> ~JsLess(RatOfInt(1), v) /\ v # NaN

\* The three filters of analysisReport on a variation v:
\* v > 1, v < -1, v >= -1 && v <= 1
InClass(v, class) ==
    CASE class = "increases" -> JsLess(RatOfInt(1), v)
      [] class = "drops"     -> JsLess(v, RatOfInt(-1))
      [] class = "stable"    -> ~JsLess(v, RatOfInt(-1)) /\ ~JsLess(RatOfInt(1), v) /\ v # NaN

RECURSIVE FilterClass(_, _)
\* sorted.filter(i => the test of the class on i.variation)
FilterClass(items, class) ==
    IF items = <<>> THEN <<>>
    ELSE (IF InClass(items[1].variation, class) THEN <<items[1]>> ELSE <<>>)
             \o FilterClass(Tail(items), class)

\* useMemo analysisReport
analysisReport ==
    IF viewMode # "analysis" THEN [increases |-> <<>>, drops |-> <<>>, stable |-> <<>>]
    ELSE LET sorted == SortByVariation(ReportItems(products), TRUE)
         IN  [increases |-> FilterClass(sorted, "increases"),
              drops     |-> SortByVariation(FilterClass(sorted, "drops"), FALSE),
              stable    |-> FilterClass(sorted, "stable")]

\* Descriptions of purchases typed by hand, now or in earlier versions of the
\* application
LecheLower40 == <<"l", "e", "c", "h", "e", " ", "x", " ", "$", "4", "0">>

LecheUpper45 == <<"L", "E", "C", "H", "E", " ", "x", "$", "4", "5">>

LecheNoPrice == <<"l", "e", "c", "h", "e", " ", "f", "r", "e", "s", "c", "a">>

PanDot == <<"P", "a", "n", " ", "x", " ", "$", ".">>

PanTen == <<"P", "a", "n", " ", "x", " ", "$", "1", "0">>

PanTwoDots == <<"P", "a", "n", " ", "2", " ", "x", " ", "$", "1", "2", ".", "5", ".", "1">>

PanFree == <<"P", "a", "n", " ", "(", "1", " ", "x", " ", "$", "0", ")">>

Fecha(year, month, day) == [year |-> year, month |-> month, day |-> day, minutes |-> 600]

\* What loadAllData finds in the store: a row of the current year and one of the year
\* before, with purchases entered before the catalog existed (one of them undated)
\* and a product taken for free
CatalogExpenses ==
    << [id |-> 1, year |-> CurrentYear, category |-> "Gastos Variables", name |-> "UTE",
        amounts |-> ArrSet(ArrayFill12, 0, 102),
        transactions |-> (0 :> << [id |-> 1, description |-> LecheLower40, amount |-> 40,
                                   date |-> Fecha(CurrentYear, 0, 5)],
                                  [id |-> 2, description |-> LecheUpper45, amount |-> 45],
                                  [id |-> 3, description |-> PanDot, amount |-> 7,
                                   date |-> Fecha(CurrentYear, 0, 6)],
                                  [id |-> 4, description |-> PanFree, amount |-> 0,
                                   date |-> Fecha(CurrentYear, 0, 7), productId |-> 2,
                                   unitPrice |-> 0, quantity |-> 1],
                                  [id |-> 6, description |-> PanTen, amount |-> 10,
                                   date |-> Fecha(CurrentYear, 0, 8)] >>)],
       [id |-> 2, year |-> CurrentYear - 1, category |-> "Gastos Variables",
        name |-> "ute",
        amounts |-> ArrSet(ArrayFill12, 11, 25),
        transactions |-> (11 :> << [id |-> 5, description |-> PanTwoDots, amount |-> 25,
                                    date |-> Fecha(CurrentYear - 1, 11, 20)] >>)] >>

\* Descriptions typed in the manual form of the modal
ManualTexts == {LecheNoPrice, LecheUpper45}

\* The application opened in January or in October
\* Rates the inflation service returns to the product manager: those of the
\* dashboard, and a year whose October prices fall to nothing
CatalogRateTables == RateTables \cup { <<100, 0, -50, 0, 0, 0, 0, 0, 0, -100, 0, 100>> }

InitCatalog == \E month \in {0, 9} :
                   InitState(CatalogExpenses, InitialIncome, month, InitialProducts)
                       /\ NothingLoaded

NextCatalog ==
    \/ \E id \in ItemIds(localData) : HandleDoubleClick(id, 0)
    \/ CloseTransactionModal
    \/ \E i \in 1..Len(products), price \in PriceTexts, q \in QtyTexts, e \in EntryDates,
          c \in ClockMinutes : HandleCatalogAdd(products[i], price, q, e, c)
    \/ \E text \in ManualTexts, e \in {DateInputValue(Today)}, c \in ClockMinutes :
          HandleManualAdd(text, <<"7">>, e, c)
    \/ \E k \in 1..MaxOps : ModalDeleteTransaction(k)
    \/ \E rates \in CatalogRateTables : InflationLoaded(rates)
    \/ \E mode \in {"manage", "analysis"} : SetViewMode(mode)

SpecCatalog == InitCatalog /\ [][NextCatalog]_vars

-----------------------------------------------------------------------------
(* ProductManager: the product form, and the quick creation of a product from the *)
(* search box of the transaction modal                                            *)

\* String.prototype.trim on a text without tabs or line breaks
RECURSIVE Trim(_)
Trim(s) ==
    IF s = <<>> THEN s
    ELSE IF Head(s) = " " THEN Trim(Tail(s))
    ELSE IF s[Len(s)] = " " THEN Trim(SubSeq(s, 1, Len(s) - 1))
    ELSE s

\* p.name.trim().toLowerCase()
NormalizedName(text) == ToLowerChars(Trim(text))

PanLowerSpaced == <<"p", "a", "n", " ">>

Te == <<"T", "e">>

\* Texts typed in the name input of the form
FormNames == {PanLowerSpaced, Te}

\* Texts typed in the price input of the form (type="number")
FormPrices == { <<"2", "5">> }

\* Texts typed in the search box of the catalog mode of the transaction modal
SearchTerms == {PanLowerSpaced, Te}

\* The form is rendered by the 'manage' view of the catalog page, which takes input
\* while no modal of the sheet is open
ManageViewShown == viewMode = "manage" /\ SheetReachable

\* The panel shows the form instead of the "Nuevo Producto" button
FormShown == productForm.isAdding \/ productForm.editingId # 0

\* The "Nuevo Producto" button: setIsAdding(true)
OpenProductForm ==
    /\ ManageViewShown
    /\ ~FormShown
    /\ productForm' = [productForm EXCEPT !.isAdding = TRUE]
    /\ UNCHANGED <<ledgerVars, incomeVars, inflationRates, simVars, products, viewMode,
                   calc, currentMonthIndex, inflationRequests>>

\* onChange of the name input: setName(e.target.value)
SetName(text) ==
    /\ ManageViewShown
    /\ FormShown
    /\ productForm.name # text
    /\ productForm' = [productForm EXCEPT !.name = text]
    /\ UNCHANGED <<ledgerVars, incomeVars, inflationRates, simVars, products, viewMode,
                   calc, currentMonthIndex, inflationRequests>>

\* onChange of the price input: setPrice(e.target.value)
SetPrice(text) ==
    /\ ManageViewShown
    /\ FormShown
    /\ productForm.price # text
    /\ productForm' = [productForm EXCEPT !.price = text]
    /\ UNCHANGED <<ledgerVars, incomeVars, inflationRates, simVars, products, viewMode,
                   calc, currentMonthIndex, inflationRequests>>

\* ProductManager.resetForm, the close and "Cancelar" buttons of the form
resetForm ==
    /\ ManageViewShown
    /\ FormShown
    /\ productForm' = EmptyForm
    /\ UNCHANGED <<ledgerVars, incomeVars, inflationRates, simVars, products, viewMode,
                   calc, currentMonthIndex, inflationRequests>>

\* ProductManager.startEdit(p), the pencil of a product of the list
startEdit(p) ==
    /\ ManageViewShown
    /\ productForm' = [isAdding |-> TRUE, editingId |-> p.id, name |-> p.name,
                       price |-> NatToStr(p.defaultPrice), tagId |-> p.tagId]
    /\ productForm' # productForm
    /\ UNCHANGED <<ledgerVars, incomeVars, inflationRates, simVars, products, viewMode,
                   calc, currentMonthIndex, inflationRequests>>

\* isDuplicate of handleSaveProduct: another product carries the name typed
isDuplicate(list, editingId, normalizedName) ==
    \E i \in 1..Len(list) :
        list[i].id # editingId /\ NormalizedName(list[i].name) = normalizedName

\* The list handleSaveProduct builds under "// Edit"
EditedProducts(list, editingId, trimmedName, finalPrice, finalTagId) ==
    [i \in 1..Len(list) |->
        IF list[i].id = editingId
        THEN [list[i] EXCEPT !.name = trimmedName, !.defaultPrice = finalPrice,
                             !.tagId = finalTagId]
        ELSE list[i]]

\* ProductManager.handleSaveProduct, the "Guardar" button. A call that returns early
\* (no name, no price, a blank name, a duplicate) changes nothing. The two calls of
\* onUpdateProducts stand in the same branch, the one taken when editingId is set:
\* the first stores the edited list, the second stores the list of the render
\* (products, not the edited one) with a new product appended, and it is the list
\* that stays. With no editingId the handler stores nothing and resets the form.
\* The price input takes digits only, so that parseFloat gives a number; the image
\* is left out of the products of the model.
HandleSaveProduct ==
    LET trimmedName == Trim(productForm.name)
        finalPrice == StrToNat(productForm.price)
        finalTagId == IF productForm.tagId # "" THEN productForm.tagId ELSE FirstTagId
        updated == EditedProducts(products, productForm.editingId, trimmedName,
                                  finalPrice, finalTagId)
        newProduct == [id |-> nextId, name |-> trimmedName, defaultPrice |-> finalPrice,
                       tagId |-> finalTagId]
        stored == IF productForm.editingId # 0
                  THEN << updated, Append(products, newProduct) >>
                  ELSE << >>
    IN  /\ ManageViewShown
        /\ FormShown
        /\ productForm.name # <<>>
        /\ productForm.price # <<>>
        /\ trimmedName # <<>>
        /\ ~isDuplicate(products, productForm.editingId, ToLowerChars(trimmedName))
        /\ Tick
        /\ products' = (IF stored = << >> THEN products ELSE stored[Len(stored)])
        /\ nextId' = (IF productForm.editingId # 0 THEN nextId + 1 ELSE nextId)
        /\ productForm' = EmptyForm
        /\ UNCHANGED <<data, localData, saveStatus, autoSaveTimer, editingTransactions,
                       yearConfigs, selectedYear, parsedItems, removedCount, importStep,
                       defaultMonth, incomeVars, inflationRates, simVars, viewMode, calc,
                       currentMonthIndex, inflationRequests>>

\* ProductManager.handleDeleteProduct(id), confirmed
HandleDeleteProduct(id) ==
    /\ ManageViewShown
    /\ id \in {products[i].id : i \in 1..Len(products)}
    /\ Tick
    /\ products' = SelectSeq(products, LAMBDA p : p.id # id)
    /\ UNCHANGED <<data, localData, saveStatus, autoSaveTimer, editingTransactions,
                   yearConfigs, selectedYear, parsedItems, removedCount, importStep,
                   defaultMonth, nextId, incomeVars, inflationRates, simVars, viewMode,
                   productForm, calc, currentMonthIndex, inflationRequests>>

\* filteredProducts of the transaction modal
filteredProducts(list, searchTerm) ==
    SelectSeq(list, LAMBDA p : Includes(ToLowerChars(p.name), ToLowerChars(searchTerm)))

\* TransactionModal.handleQuickCreateProduct, the button shown under the search box
\* when the term typed matches no product, then ExpenseEntry.handleAddProductFromModal
HandleQuickCreateProduct(searchTerm) ==
    LET newProduct == [id |-> nextId, name |-> searchTerm, defaultPrice |-> 0,
                       tagId |-> "uncategorized"]
    IN  /\ editingTransactions.open
        /\ searchTerm # <<>>
        /\ filteredProducts(products, searchTerm) = <<>>
        /\ ~(\E i \in 1..Len(products) : products[i].id = newProduct.id)
        /\ Tick
        /\ nextId' = nextId + 1
        /\ products' = Append(products, newProduct)
        /\ UNCHANGED <<data, localData, saveStatus, autoSaveTimer, editingTransactions,
                       yearConfigs, selectedYear, parsedItems, removedCount, importStep,
                       defaultMonth, incomeVars, inflationRates, simVars, viewMode,
                       productForm, calc, currentMonthIndex, inflationRequests>>

InitProducts == InitState(CatalogExpenses, InitialIncome, 0, InitialProducts)
                    /\ NothingLoaded

NextProducts ==
    \/ OpenProductForm
    \/ \E text \in FormNames : SetName(text)
    \/ \E text \in FormPrices : SetPrice(text)
    \/ resetForm
    \/ \E i \in 1..Len(products) : startEdit(products[i])
    \/ HandleSaveProduct
    \/ \E i \in 1..Len(products) : HandleDeleteProduct(products[i].id)
    \/ \E id \in ItemIds(localData) : HandleDoubleClick(id, 0)
    \/ CloseTransactionModal
    \/ \E term \in SearchTerms : HandleQuickCreateProduct(term)

SpecProducts == InitProducts /\ [][NextProducts]_vars

-----------------------------------------------------------------------------
(* The calculation helpers of the inflation service, called on their own: each run *)
(* of this state machine makes one call and keeps its arguments and its result    *)

\* The rate arrays the helpers are given: none loaded yet, three months only, and a
\* full year (one month of which halves prices, one wipes them out)
CalcRateTables ==
    { <<>>,
      <<100, 50, -50>>,
      <<100, 50, -50, 0, 25, -20, 0, 200, 0, -100, 100, 25>> }

\* The amounts the helpers are given
CalcAmounts == {RatOfInt(0), RatOfInt(120)}

\* A call getCumulativeInflation(inflationRates, start, target)
CallGetCumulativeInflation(start, target) ==
    /\ calc = NoCall
    /\ calc' = [fn |-> "getCumulativeInflation", from |-> start, to |-> target,
                result |-> getCumulativeInflation(inflationRates, start, target)]
    /\ UNCHANGED <<ledgerVars, incomeVars, inflationRates, products, currentMonthIndex, viewMode,
                   simVars, productForm, inflationRequests>>

\* A call calculatePresentValue(pastAmount, from, current, inflationRates)
CallCalculatePresentValue(pastAmount, from, current) ==
    /\ calc = NoCall
    /\ calc' = [fn |-> "calculatePresentValue", amount |-> pastAmount, from |-> from,
                to |-> current,
                result |-> calculatePresentValue(pastAmount, from, current, inflationRates)]
    /\ UNCHANGED <<ledgerVars, incomeVars, inflationRates, products, currentMonthIndex, viewMode,
                   simVars, productForm, inflationRequests>>

\* A call calculateRealValue(nominal, getCumulativeInflation(inflationRates, start, target))
CallCalculateRealValue(nominal, start, target) ==
    LET c == getCumulativeInflation(inflationRates, start, target)
    IN  /\ calc = NoCall
        /\ calc' = [fn |-> "calculateRealValue", amount |-> nominal, from |-> start,
                    to |-> target, c |-> c, result |-> calculateRealValue(nominal, c)]
        /\ UNCHANGED <<ledgerVars, incomeVars, inflationRates, products, currentMonthIndex,
                       viewMode, simVars, productForm, inflationRequests>>

\* The Dashboard in June, with any of the rate arrays
InitInflation ==
    /\ InitState(ProjectionExpenses, ProjectionIncome, 5, <<>>)
    /\ inflationRates \in CalcRateTables
    /\ calc = NoCall
    /\ inflationRequests = NoRequests

NextInflation ==
    \/ \E s, g \in 0..(MonthsPerYear - 1) : CallGetCumulativeInflation(s, g)
    \/ \E a \in CalcAmounts : \E s, g \in 0..(MonthsPerYear - 1) :
          CallCalculatePresentValue(a, s, g)
    \/ \E a \in CalcAmounts : \E s, g \in 0..(MonthsPerYear - 1) :
          CallCalculateRealValue(a, s, g)
    \/ HandleUpdateYearConfig(3)

SpecInflation == InitInflation /\ [][NextInflation]_vars

-----------------------------------------------------------------------------
(* Claims about the expense ledger *)

\* Every row of a ledger value keeps its transaction lists and its amounts in step
TxSumsMatch(rows) ==
    \A i \in 1..Len(rows) : \A m \in DOMAIN rows[i].transactions :
        /\ m \in DOMAIN rows[i].amounts.at
        /\ rows[i].amounts.at[m] = SumAmounts(rows[i].transactions[m])

\* C1: after any sequence of ledger-mutating operations, for every expense item and
\* every month that owns a transaction list, the amounts of the list sum to the
\* item's amounts[month] (in App.data and in the sheet's local copy).
C1_TransactionsSumToAmount == TxSumsMatch(data) /\ TxSumsMatch(localData)

\* Every row's series is a 12-entry array without holes
SeriesOfTwelve(rows) ==
    \A i \in 1..Len(rows) :
        /\ rows[i].amounts.len = MonthsPerYear
        /\ DOMAIN rows[i].amounts.at = 0..(MonthsPerYear - 1)

\* C2: after any sequence of ledger operations every item's amounts series has
\* length exactly 12, unfilled months holding explicit zeros.
C2_SeriesLengthTwelve == SeriesOfTwelve(data) /\ SeriesOfTwelve(localData)

-----------------------------------------------------------------------------
(* Claims about the auto-save *)

\* What is stored agrees with what the income sheet shows
IncomePersisted ==
    /\ currentYearIncome = incLocalData
    /\ openingBalanceForSelectedYear = ParseFloatOrZero(localSavings)

\* C3: whenever the income sheet shows 'saved', the latest local rows and the latest
\* opening balance typed have been handed to onUpdate / onUpdateOpeningBalance, so the
\* stored rows and the stored opening balance are the ones on screen.
C3_SavedMeansPersisted == incSaveStatus = "saved" => IncomePersisted

-----------------------------------------------------------------------------
(* Claims about the projection *)

\* Net savings of month i of the selected year, from the rows
NetSavingsAt(i) == TotalAt(currentYearIncome, i) - TotalAt(currentYearData, i)

RECURSIVE SumThrough(_)
\* Net savings of the months 0..i
SumThrough(i) == IF i < 0 THEN 0 ELSE NetSavingsAt(i) + SumThrough(i - 1)

\* The actual balance at the close of month i (the opening balance for i = -1)
CloseOf(i) == RatOfInt(openingBalanceForSelectedYear + SumThrough(i))

\* The months a claim calls past, current and future
PastMonth(i) == selectedYear # CurrentYear \/ i < currentMonthIndex

PresentMonth(i) == selectedYear = CurrentYear /\ i = currentMonthIndex

FutureMonth(i) == selectedYear = CurrentYear /\ i > currentMonthIndex

\* The completed, recorded months of the current year
QualifyingMonths == {i \in 0..(MonthsPerYear - 1) : startMonthIndex <= i /\ i < currentMonthIndex}

RECURSIVE SumOver(_, _)
\* The sum of NetSavingsAt(i)^e over the months of S, e being 1 or 2
SumOver(S, e) ==
    IF S = {} THEN 0
    ELSE LET i == CHOOSE j \in S : TRUE
         IN  (IF e = 1 THEN NetSavingsAt(i) ELSE NetSavingsAt(i) * NetSavingsAt(i))
             + SumOver(S \ {i}, e)

\* The mean of the net savings over the months of S # {}
MeanOver(S) == Rat(SumOver(S, 1), Cardinality(S))

\* The population variance over the months of S # {}: the mean of the squares minus
\* the square of the mean
PopulationVarianceOver(S) ==
    RatSub(Rat(SumOver(S, 2), Cardinality(S)), RatMul(MeanOver(S), MeanOver(S)))

\* The monthly data with the net savings of month i replaced by x
WithSavings(md, i, x) == [md EXCEPT ![i].netSavings = x]

\* Other net savings a month could have had
OtherSavings == {-3, 0, 500}

\* C4: for every past month (index below the current month in the current year, every
\* month otherwise) the projected balance after processing the month is identical to
\* the actual cumulative balance: opening balance plus the net savings of months 0..i.
C4_PastProjectedEqualsActual ==
    LET iterations == IterationsOf(monthlyData)
    IN  \A i \in 0..(MonthsPerYear - 1) :
            PastMonth(i) =>
                /\ iterations[i + 1].runningProjected = iterations[i + 1].runningActual
                /\ iterations[i + 1].runningActual = CloseOf(i)
                /\ Len(iterations[i + 1].points) = 1
                /\ iterations[i + 1].points[1].actual = Val(CloseOf(i))

\* A past month with savings has been processed in the current year, after the start
\* of the records was moved past it
C4_Witness ==
    /\ selectedYear = CurrentYear
    /\ currentMonthIndex = 5
    /\ startMonthIndex = 3
    /\ NetSavingsAt(2) # 0
    /\ IterationsOf(monthlyData)[3].runningProjected = CloseOf(2)
    /\ CloseOf(2) # CloseOf(-1)

\* C5: at the current month c of the current year the actual point is the close of
\* month c-1 plus netSavings[c]; the projected point is the close of month c-1 plus
\* avgSavings, whatever netSavings[c] is; the two differ when netSavings[c] differs
\* from avgSavings.
C5_CurrentMonthFork ==
    selectedYear = CurrentYear =>
        LET c == currentMonthIndex
            md == monthlyData
            point == ProjectionOf(md)[c + 1]
        IN  /\ point.actual = Val(RatAdd(CloseOf(c - 1), RatOfInt(NetSavingsAt(c))))
            /\ point.projected = Val(RatAdd(CloseOf(c - 1), AvgSavingsOf(md)))
            /\ \A x \in OtherSavings :
                   ProjectionOf(WithSavings(md, c, x))[c + 1].projected = point.projected
            /\ RatOfInt(NetSavingsAt(c)) # AvgSavingsOf(md) => point.actual # point.projected

\* The current month carries a spike added with the quick-add, away from the average
C5_Witness ==
    /\ selectedYear = CurrentYear
    /\ currentMonthIndex = 4
    /\ NetSavingsAt(4) = -4
    /\ avgSavings = Rat(17, 4)
    /\ projectionData[5].actual # projectionData[5].projected

\* C6: in the current year avgSavings is the mean of the monthly net savings over the
\* months i with startMonthIndex <= i < currentMonthIndex, and stdDev is the population
\* standard deviation of the same months; no other month influences either.
C6_StatsOverCompletedRecordedMonths ==
    selectedYear = CurrentYear =>
        LET md == monthlyData
            avg == AvgSavingsOf(md)
            sd == StdDevOf(md, avg)
        IN  /\ avg = avgSavings
            /\ QualifyingMonths # {} =>
                   /\ avg = MeanOver(QualifyingMonths)
                   /\ sd = Sqrt(PopulationVarianceOver(QualifyingMonths))
            /\ \A i \in (0..(MonthsPerYear - 1)) \ QualifyingMonths : \A x \in OtherSavings :
                   /\ AvgSavingsOf(WithSavings(md, i, x)) = avg
                   /\ StdDevOf(WithSavings(md, i, x), avg) = sd

\* Three completed months after an unrecorded quarter, with uneven savings
C6_Witness ==
    /\ selectedYear = CurrentYear
    /\ currentMonthIndex = 6
    /\ startMonthIndex = 3
    /\ validMonthsCount = 3
    /\ avgSavings = Rat(5, 3)
    /\ StdDevOf(monthlyData, avgSavings) = Sqrt(Rat(74, 9))

\* C7: when no month qualifies for the statistics, avgSavings and stdDev are 0 and the
\* projection is flat: every projected value of the current and future months is the
\* balance at the close of the last past month, with an error band of width zero.
C7_NoQualifyingMonthFlat ==
    (selectedYear = CurrentYear /\ QualifyingMonths = {}) =>
        LET points == projectionData
            flat == CloseOf(currentMonthIndex - 1)
        IN  /\ avgSavings = RatOfInt(0)
            /\ StdDevOf(monthlyData, avgSavings) = Sqrt(RatOfInt(0))
            /\ Len(points) = MonthsPerYear
            /\ \A i \in currentMonthIndex..(MonthsPerYear - 1) :
                   /\ points[i + 1].projected = Val(flat)
                   /\ points[i + 1].range
                          = Val(<<[rat |-> flat, sign |-> 0, rad |-> RatOfInt(0)],
                                  [rat |-> flat, sign |-> 0, rad |-> RatOfInt(0)]>>)

\* The year starts at the current month, April, after three months with savings
C7_Witness ==
    /\ selectedYear = CurrentYear
    /\ currentMonthIndex = 3
    /\ startMonthIndex = 3
    /\ validMonthsCount = 0
    /\ NetSavingsAt(3) # 0
    /\ projectionData[12].projected = Val(CloseOf(2))

\* C8: the error band is symmetric around the projected balance; its half-width is
\* 0.5 * stdDev at the current month and stdDev * sqrt(k) * 1.5 at k months after it,
\* and the width never shrinks from one month to the next.  Half-widths are compared
\* by their squares.
C8_BandSymmetricAndWidening ==
    selectedYear = CurrentYear =>
        LET points == projectionData
            variance == VarianceOf(monthlyData, avgSavings)
        IN  \A i \in currentMonthIndex..(MonthsPerYear - 1) :
                LET low == points[i + 1].range.v[1]
                    high == points[i + 1].range.v[2]
                IN  /\ low.rat = points[i + 1].projected.v
                    /\ high.rat = points[i + 1].projected.v
                    /\ low.rad = high.rad
                    /\ low.sign = 0 - high.sign
                    /\ high.sign >= 0
                    /\ high.rad = (IF i = currentMonthIndex
                                   THEN RatMul(Rat(1, 4), variance)
                                   ELSE RatMul(Rat(9 * (i - currentMonthIndex), 4), variance))
                    /\ i < MonthsPerYear - 1 =>
                           RatLeq(high.rad, points[i + 2].range.v[2].rad)

\* A band of positive width at the current month, June
C8_Witness ==
    /\ selectedYear = CurrentYear
    /\ currentMonthIndex = 5
    /\ projectionData[6].range.v[2].sign = 1
    /\ projectionData[12].range.v[1].sign = -1
    /\ inflationRates # <<>>

\* C9: in every projection result a point is flagged isUnrecorded exactly when its
\* month index is below startMonthIndex.
C9_UnrecordedExactlyBelowStart ==
    \A i \in 1..Len(projectionData) :
        projectionData[i].isUnrecorded <=> (i - 1 < startMonthIndex)

\* C10: the projection has exactly 12 points in month order; each month is exactly one
\* of past, current and future; actual and realActual are present exactly for past and
\* current months, projected, realProjected and the band exactly for current and future
\* months; in a year other than the current one all 12 months are past.
C10_TwelvePointsPartitioned ==
    LET points == projectionData
    IN  /\ Len(points) = MonthsPerYear
        /\ \A i \in 0..(MonthsPerYear - 1) :
               /\ points[i + 1].name = MonthNames[i + 1]
               /\ isPast(i) <=> PastMonth(i)
               /\ isCurrent(i) <=> PresentMonth(i)
               /\ isFuture(i) <=> FutureMonth(i)
               /\ Cardinality({k \in {"past", "current", "future"} :
                                  \/ k = "past" /\ isPast(i)
                                  \/ k = "current" /\ isCurrent(i)
                                  \/ k = "future" /\ isFuture(i)}) = 1
               /\ ~points[i + 1].actual.isNull <=> (PastMonth(i) \/ PresentMonth(i))
               /\ ~points[i + 1].realActual.isNull <=> (PastMonth(i) \/ PresentMonth(i))
               /\ ~points[i + 1].projected.isNull <=> (PresentMonth(i) \/ FutureMonth(i))
               /\ ~points[i + 1].realProjected.isNull <=> (PresentMonth(i) \/ FutureMonth(i))
               /\ ~points[i + 1].range.isNull <=> (PresentMonth(i) \/ FutureMonth(i))
               /\ selectedYear # CurrentYear => isPast(i)

\* The year after the current one is shown: twelve past points
C10_Witness ==
    /\ selectedYear = CurrentYear + 1
    /\ currentMonthIndex = 5
    /\ Len(projectionData) = MonthsPerYear
    /\ projectionData[12].projected = Null
    /\ ~projectionData[12].actual.isNull


-----------------------------------------------------------------------------
(* Claims about the product catalog *)

\* The transaction at the end of the list of the open cell
ModalLast == ModalTransactions[Len(ModalTransactions)]

\* The step has appended a catalog purchase to the list of the open cell
CatalogPurchaseStep ==
    /\ editingTransactions.open
    /\ editingTransactions'.open
    /\ Len(ModalTransactions') = Len(ModalTransactions) + 1
    /\ "productId" \in DOMAIN ModalLast'

\* C11: adding a catalog purchase in the transaction modal changes the catalog only
\* if the purchase is dated today or later; a purchase dated before today leaves
\* the catalog as it was, whatever unit price was entered.
C11_BackDatedPurchaseKeepsCatalog ==
    [][CatalogPurchaseStep /\ DayBefore(ModalLast'.date, Today) => products' = products]_vars

\* A purchase added in this session, dated before today, at a unit price that differs
\* from the reference price of its product, is in the ledger
C11_Witness ==
    \E i \in 1..Len(data) : \E m \in DOMAIN data[i].transactions :
        \E k \in 1..Len(data[i].transactions[m]) :
            LET t == data[i].transactions[m][k]
            IN  /\ "productId" \in DOMAIN t
                /\ t.id >= 10
                /\ DayBefore(t.date, Today)
                /\ \E j \in 1..Len(products) :
                       /\ products[j].id = t.productId
                       /\ products[j].defaultPrice # t.unitPrice


-----------------------------------------------------------------------------
(* Claims about the inflation helpers *)

\* The array holds no rate for month i
RateMissing(rates, i) == i < 0 \/ i >= Len(rates)

\* 1 + rates[i]/100, a month without a rate counting as 0%
FactorOf(rates, i) == Rat(100 + (IF RateMissing(rates, i) THEN 0 ELSE rates[i + 1]), 100)

RECURSIVE ProductOver(_, _)
\* The product of 1 + rates[i]/100 over the months i of S (1 for no month)
ProductOver(rates, S) ==
    IF S = {} THEN RatOfInt(1)
    ELSE LET i == CHOOSE x \in S : \A y \in S : y <= x
         IN  RatMul(ProductOver(rates, S \ {i}), FactorOf(rates, i))

\* C12: getCumulativeInflation(rates, startIdx, targetIdx) returns (P - 1) * 100, P
\* being the product of 1 + rates[i]/100 over startIdx <= i <= targetIdx, both ends
\* included.
C12_CumulativeInflationInclusive ==
    calc.fn = "getCumulativeInflation" =>
        calc.result = RatMul(RatSub(ProductOver(inflationRates, calc.from..calc.to),
                                    RatOfInt(1)),
                             RatOfInt(100))

\* Rates 100, 50, -50 over months 0..2: prices end 50% higher
C12_Witness ==
    /\ calc.fn = "getCumulativeInflation"
    /\ calc.from = 0
    /\ calc.to = 2
    /\ Len(inflationRates) >= 3
    /\ calc.result = RatOfInt(50)

\* C13: calculatePresentValue(pastAmount, from, current, rates) multiplies pastAmount
\* by 1 + rates[i]/100 for from+1 <= i <= current, the purchase month's own rate
\* left out, and returns pastAmount unchanged whenever from >= current.
C13_PresentValueSkipsPurchaseMonth ==
    calc.fn = "calculatePresentValue" =>
        /\ calc.result = RatMul(calc.amount,
                                ProductOver(inflationRates, (calc.from + 1)..calc.to))
        /\ calc.from >= calc.to => calc.result = calc.amount

\* 120 bought in January is worth 120 * 1.5 * 0.5 = 90 in March
C13_Witness ==
    /\ calc.fn = "calculatePresentValue"
    /\ calc.from = 0
    /\ calc.to = 2
    /\ calc.amount = RatOfInt(120)
    /\ calc.result = RatOfInt(90)

\* C14: for any nominal amount and any rates, start and target,
\* calculateRealValue(nominal, c) with c = getCumulativeInflation(rates, start,
\* target), multiplied back by 1 + c/100, returns the nominal amount; and
\* calculateRealValue is the identity when c is 0.
C14_RealValueRoundTrip ==
    calc.fn = "calculateRealValue" =>
        /\ JsMul(calc.result, RatAdd(RatOfInt(1), RatDiv(calc.c, RatOfInt(100))))
               = calc.amount
        /\ calc.c.n = 0 => calc.result = calc.amount

\* C14, amended: the round trip holds for every nominal amount and every rates, start
\* and target whose cumulative inflation c is not -100% (the factor 1 + c/100 is
\* not zero); calculateRealValue is the identity when c is 0.
C14_RoundTripUnlessPricesVanish ==
    (calc.fn = "calculateRealValue" /\ calc.c # RatOfInt(-100)) =>
        /\ JsMul(calc.result, RatAdd(RatOfInt(1), RatDiv(calc.c, RatOfInt(100))))
               = calc.amount
        /\ calc.c.n = 0 => calc.result = calc.amount

\* 120 after prices doubled is worth 60
C14_Witness ==
    /\ calc.fn = "calculateRealValue"
    /\ calc.c = RatOfInt(100)
    /\ calc.amount = RatOfInt(120)
    /\ calc.result = RatOfInt(60)

\* C15: a month without a rate counts as 0%: over months that all lack a rate
\* getCumulativeInflation is 0 and calculatePresentValue returns the amount
\* unchanged, and every point of the projection whose months since the start month
\* all lack a rate has real values equal to the nominal ones.
C15_MissingRateIsZero ==
    LET points == projectionData
    IN  /\ (/\ calc.fn = "getCumulativeInflation"
            /\ \A i \in calc.from..calc.to : RateMissing(inflationRates, i))
               => calc.result = RatOfInt(0)
        /\ (/\ calc.fn = "calculatePresentValue"
            /\ \A i \in (calc.from + 1)..calc.to : RateMissing(inflationRates, i))
               => calc.result = calc.amount
        /\ \A k \in 1..Len(points) :
               (\A i \in startMonthIndex..(k - 1) : RateMissing(inflationRates, i))
                   => /\ points[k].inflation = RatOfInt(0)
                      /\ points[k].realActual = points[k].actual
                      /\ points[k].realProjected = points[k].projected

\* Rates known for January to March only, the year starting in April: a purchase of
\* March brought to December keeps its amount, and the projection is inflation-free
C15_Witness ==
    /\ Len(inflationRates) = 3
    /\ startMonthIndex = 3
    /\ calc.fn = "calculatePresentValue"
    /\ calc.from = 2
    /\ calc.to = 11
    /\ calc.amount = RatOfInt(120)
    /\ calc.result = RatOfInt(120)
    /\ projectionData[12].realProjected = projectionData[12].projected
    /\ ~projectionData[12].projected.isNull


\* The places of App.data where a transaction is stored: row, month, position
TransactionSlots ==
    { <<i, m, k>> \in (1..Len(data)) \X (0..(MonthsPerYear - 1)) \X (1..(MaxOps + 6)) :
          m \in DOMAIN data[i].transactions /\ k <= Len(data[i].transactions[m]) }

TransactionAt(slot) == data[slot[1]].transactions[slot[2]][slot[3]]

\* The pairs of an upper-case letter and its lower-case letter, both ways
CasePairs ==
    {<<UpperChars[k], LowerChars[k]>> : k \in 1..26}
        \cup {<<LowerChars[k], UpperChars[k]>> : k \in 1..26}

\* Two characters are the same letter, whatever their case
SameLetter(a, b) == a = b \/ <<a, b>> \in CasePairs

\* The description contains the name of the product, case ignored
ContainsName(description, name) ==
    \E k \in 0..(Len(description) - Len(name)) :
        \A j \in 1..Len(name) : SameLetter(description[k + j], name[j])

\* The transaction matches the product: by product id, or by name in the description
Matches(t, p) ==
    \/ "productId" \in DOMAIN t /\ t.productId = p.id
    \/ ContainsName(t.description, p.name)

\* The transaction carries a date
Dated(t) == "date" \in DOMAIN t

\* The number written after "x $" in the descriptions typed by hand
PatternNumber(description) ==
    CASE description = LecheLower40 -> Val(RatOfInt(40))
      [] description = LecheUpper45 -> Val(RatOfInt(45))
      [] description = PanTen       -> Val(RatOfInt(10))
      [] description = PanTwoDots   -> Val(Rat(25, 2))
      [] description = PanFree      -> Val(RatOfInt(0))
      [] OTHER                      -> Null

\* The unit price of a transaction: the stored one when present, else the one of the
\* description; null when there is none, and a price of 0 counts as none
PriceOf(t) ==
    LET found == IF "unitPrice" \in DOMAIN t
                 THEN Val(RatOfInt(t.unitPrice))
                 ELSE PatternNumber(t.description)
    IN  IF ~found.isNull /\ found.v.n = 0 THEN Null ELSE found

\* The points of a history that carry the date and the price of the transaction
PointsOf(h, t, price) == {j \in 1..Len(h) : h[j].date = t.date /\ h[j].price = price}

\* The history h shows the transactions at the places slots, each with its date and
\* its price, and nothing else
HistoryShows(h, slots) ==
    /\ Len(h) = Cardinality(slots)
    /\ \A s \in slots :
           LET t == TransactionAt(s)
               price == PriceOf(t)
           IN  Cardinality(PointsOf(h, t, price.v))
                   = Cardinality({r \in slots : /\ TransactionAt(r).date = t.date
                                                /\ PriceOf(TransactionAt(r)) = price})

\* C16: a transaction is a candidate for the price history of a product exactly when
\* its productId is the product's id or its description contains the product's name,
\* case ignored; every transaction of every month of every row is scanned. (Every
\* matching transaction that has a price has its point, and there is no other point.)
C16_CandidatesAreMatches ==
    LET all == TransactionSlots
    IN  \A i \in 1..Len(products) :
            HistoryShows(getProductHistory(products[i]),
                         {s \in all : /\ Matches(TransactionAt(s), products[i])
                                      /\ ~PriceOf(TransactionAt(s)).isNull})

\* C16, amended: a transaction that carries a date is a candidate exactly when it
\* matches by product id or by name; a transaction without a date is never one.
C16_DatedCandidatesAreMatches ==
    LET all == TransactionSlots
    IN  \A i \in 1..Len(products) :
            HistoryShows(getProductHistory(products[i]),
                         {s \in all : /\ Dated(TransactionAt(s))
                                      /\ Matches(TransactionAt(s), products[i])
                                      /\ ~PriceOf(TransactionAt(s)).isNull})

\* A purchase typed today as "LECHE x$45", without product id, is a point of the
\* history of the product Leche
C16_Witness ==
    \E s \in TransactionSlots :
        LET t == TransactionAt(s)
        IN  /\ t.id >= 10
            /\ t.description = LecheUpper45
            /\ Dated(t)
            /\ PointsOf(getProductHistory(products[1]), t, RatOfInt(45)) # {}

ReportEntries(report) == report.increases \o report.drops \o report.stable

\* The places of a sequence of report entries that hold the product p
EntriesOf(entries, p) == {j \in 1..Len(entries) : entries[j].product.id = p.id}

\* No point of the history h is dated before the point j
Earliest(h, j) == \A y \in 1..Len(h) : ~TimeBefore(h[y].date, h[j].date)

\* No point of the history h is dated after the point j
Latest(h, j) == \A y \in 1..Len(h) : ~TimeBefore(h[j].date, h[y].date)

\* (lastReal - firstReal) / firstReal * 100, for a first real price other than 0
VariationOf(firstReal, lastReal) ==
    Rat((lastReal.n * firstReal.d - firstReal.n * lastReal.d) * 100 * firstReal.d,
        lastReal.d * firstReal.d * firstReal.n)

\* C18: in the analysis view, a product with at least two history points is in the
\* report once, with variation (lastReal - firstReal) / firstReal * 100 where firstReal
\* and lastReal are the real prices of a point with the earliest and of a point with
\* the latest timestamp, the history being sorted ascending by timestamp; a product
\* with zero or one history point is not in the report. (The variation is defined
\* when firstReal is not 0.)
C18_VariationFromEarliestToLatest ==
    viewMode = "analysis" =>
        LET entries == ReportEntries(analysisReport)
        IN  \A i \in 1..Len(products) :
                LET p == products[i]
                    h == getProductHistory(p)
                    mine == EntriesOf(entries, p)
                IN  /\ \A j \in 1..(Len(h) - 1) : ~TimeBefore(h[j + 1].date, h[j].date)
                    /\ Len(h) < 2 => mine = {}
                    /\ Len(h) >= 2 /\ h[1].realPrice.n # 0 =>
                           /\ Cardinality(mine) = 1
                           /\ Earliest(h, 1)
                           /\ Latest(h, Len(h))
                           /\ \A j \in mine :
                                  /\ entries[j].variation
                                         = VariationOf(h[1].realPrice, h[Len(h)].realPrice)
                                  /\ entries[j].firstRealPrice = h[1].realPrice
                                  /\ entries[j].lastRealPrice = h[Len(h)].realPrice

\* The analysis view reports Pan, whose earliest point (of December of the year
\* before) was scanned after a later one, and does not report Leche, which has one
\* point
C18_Witness ==
    /\ viewMode = "analysis"
    /\ LET entries == ReportEntries(analysisReport)
       IN  /\ EntriesOf(entries, products[1]) = {}
           /\ Len(getProductHistory(products[1])) = 1
           /\ \E j \in EntriesOf(entries, products[2]) :
                  /\ entries[j].firstDate.year = CurrentYear - 1
                  /\ entries[j].historyCount >= 2

\* The class the thresholds give to a variation v: more than 1, less than -1, or
\* between -1 and 1 inclusive
ClassOf(v) ==
    IF ~IsFinite(v) THEN (IF v.n > 0 THEN "increases" ELSE "drops")
    ELSE IF v.n > v.d THEN "increases"
    ELSE IF v.n < -v.d THEN "drops"
    ELSE "stable"

\* C19: every product of the variation report is in exactly one class, the one of its
\* variation v: increase when v > 1, drop when v < -1, stable when -1 <= v <= 1; a
\* product with a variation is in no two classes and in none.
C19_ExactlyOneClass ==
    viewMode = "analysis" =>
        LET report == analysisReport
            entries == ReportEntries(report)
        IN  \A i \in 1..Len(products) :
                LET p == products[i]
                    item == ReportItem(p)
                IN  /\ \A class \in {"increases", "drops", "stable"} :
                           \A j \in EntriesOf(report[class], p) :
                               /\ ClassOf(report[class][j].variation) = class
                               /\ Cardinality(EntriesOf(entries, p)) = 1
                    /\ ~item.isNull /\ item.v.variation # NaN => EntriesOf(entries, p) # {}

\* The report holds a product that rose by 50 %, and one that fell by more than 1 %
\* or stayed within 1 %
C19_Witness ==
    /\ viewMode = "analysis"
    /\ LET report == analysisReport
       IN  /\ report.stable # <<>> \/ report.drops # <<>>
           /\ \E j \in 1..Len(report.increases) :
                  report.increases[j].variation = RatOfInt(50)

-----------------------------------------------------------------------------
(* Claims about the future simulator *)

\* The target (year, month) is strictly after the current (year, month)
TargetAfterNow ==
    simYear > CurrentYear \/ (simYear = CurrentYear /\ simMonth > currentMonthIndex)

\* C20: whenever the target (year, month) is not strictly after the current (year,
\* month), the simulation returns nominal = real = investedNominal = current liquid
\* wealth, investmentProfit = 0 and monthsDiff = 0, whatever the savings, the
\* inflation and the investment settings.
C20_GuardReturnsCurrentWealth ==
    ~TargetAfterNow =>
        LET result == simulationResult
            wealth == RatOfInt(currentLiquidWealth)
        IN  /\ result.nominal = wealth
            /\ result.real = wealth
            /\ result.investedNominal = wealth
            /\ result.investmentProfit = RatOfInt(0)
            /\ result.monthsDiff = 0

\* The target is a month of this year before the current one, with rates loaded, an
\* investment at 10 % enabled and average savings other than 0
C20_Witness ==
    /\ simYear = CurrentYear
    /\ simMonth < currentMonthIndex
    /\ inflationRates # <<>>
    /\ enableInvestment
    /\ annualReturnRate = 10
    /\ avgSavings # RatOfInt(0)
    /\ currentLiquidWealth # 0
    /\ simulationResult.monthsDiff = 0

\* The months after the current one up to the target, counted one by one
MonthsToCome ==
    {ym \in (CurrentYear..simYear) \X (0..(MonthsPerYear - 1)) :
         /\ ym[1] > CurrentYear \/ ym[2] > currentMonthIndex
         /\ ym[1] < simYear \/ ym[2] <= simMonth}

\* C21: for a target strictly after the current month, monthsDiff is
\* (targetYear - currentYear) * 12 + (targetMonth - currentMonth), the number of months
\* to come, and the nominal result without investment is
\* currentWealth + monthsDiff * avgSavings.
C21_LinearNominal ==
    TargetAfterNow =>
        LET result == simulationResult
            months == (simYear - CurrentYear) * 12 + (simMonth - currentMonthIndex)
        IN  /\ result.monthsDiff = months
            /\ months = Cardinality(MonthsToCome)
            /\ months > 0
            /\ result.nominal.n * avgSavings.d
                   = result.nominal.d * (currentLiquidWealth * avgSavings.d + months * avgSavings.n)

\* From July the target was moved to December of the next year: 17 months at average
\* savings other than 0
C21_Witness ==
    /\ currentMonthIndex = 6
    /\ simYear = CurrentYear + 1
    /\ simMonth = 11
    /\ avgSavings.n # 0
    /\ simulationResult.monthsDiff = 17
    /\ simulationResult.nominal # RatOfInt(currentLiquidWealth)

\* C22: the investment scenario applies only when investment is enabled and the annual
\* return rate is above 0: otherwise investedNominal is the nominal result without
\* investment and investmentProfit is 0; when it applies, investmentProfit is
\* investedNominal minus the nominal result without investment.
C22_InvestmentOnlyWhenEnabledAndPositive ==
    LET result == simulationResult
    IN  IF enableInvestment /\ annualReturnRate > 0
        THEN result.investmentProfit = Arith("-", result.investedNominal, result.nominal)
        ELSE /\ result.investedNominal = result.nominal
             /\ result.investmentProfit = RatOfInt(0)

\* Investment is enabled at 10 % for a target after now and the invested result is
\* compounded, not the linear one
C22_Witness ==
    /\ TargetAfterNow
    /\ enableInvestment
    /\ annualReturnRate = 10
    /\ avgSavings.n # 0
    /\ ~IsNumber(simulationResult.investedNominal)
    /\ simulationResult.investmentProfit # RatOfInt(0)

-----------------------------------------------------------------------------
(* Claims about the cleanup of the months before the start month *)

\* The row of the ledger rows that has the id
RowById(rows, id) == rows[CHOOSE i \in 1..Len(rows) : rows[i].id = id]

\* The amount of the row at the month is other than 0 (a missing entry is other than 0)
AmountSet(item, m) == m \notin DOMAIN item.amounts.at \/ item.amounts.at[m] # 0

\* C23: handleCleanInvalidData(startIdx) sets to 0 every amount of the rows of the
\* selected year at the months below startIdx, leaves the amounts at the months from
\* startIdx on and the rows of the other years as they are, and returns true exactly
\* when an amount was changed; run again at once it changes nothing and returns false.
C23_CleanupZeroesBelowStart ==
    [][HandleClean =>
          LET startIdx == startMonthIndex
              changed == CleanChanged(currentYearData, startIdx)
          IN  /\ Len(data') = Len(data)
              /\ ItemIds(data') = ItemIds(data)
              /\ Cardinality(ItemIds(data)) = Len(data)
              /\ \A i \in 1..Len(data) :
                     LET before == data[i]
                         after == RowById(data', before.id)
                     IN  IF before.year = selectedYear
                         THEN /\ [after EXCEPT !.amounts = before.amounts] = before
                              /\ after.amounts.len = before.amounts.len
                              /\ \A m \in 0..(after.amounts.len - 1) :
                                     IF m < startIdx THEN after.amounts.at[m] = 0
                                     ELSE after.amounts.at[m] = before.amounts.at[m]
                         ELSE after = before
              /\ changed <=> \E i \in 1..Len(data), m \in 0..(startIdx - 1) :
                                 data[i].year = selectedYear /\ AmountSet(data[i], m)
              /\ changed <=> \E i \in 1..Len(data) : RowById(data', data[i].id) # data[i]
              /\ ~CleanChanged(currentYearData', startMonthIndex')
              /\ CleanedYearData(currentYearData', startMonthIndex') = currentYearData'
    ]_vars

\* A row of the selected year holds a January purchase of 3 in its list while its
\* January amount is 0, with the start month in February; the amount of the row of the
\* year before is still 1
C23_Witness ==
    /\ startMonthIndex = 1
    /\ \E i \in 1..Len(data) :
           /\ data[i].year = selectedYear
           /\ 0 \in DOMAIN data[i].transactions
           /\ SumAmounts(data[i].transactions[0]) # 0
           /\ data[i].amounts.at[0] = 0
    /\ \E i \in 1..Len(data) : data[i].year # selectedYear /\ data[i].amounts.at[0] = 1

-----------------------------------------------------------------------------
(* Claims about the product form and the names of the catalog *)

ProductIds(list) == {list[i].id : i \in 1..Len(list)}

\* C24: a save of the product form while a product is being edited keeps the length
\* and the ids of the catalog and changes that product in place (name, reference
\* price, tag), creating no product; a product is appended only by a save made while
\* no product is being edited.
C24_EditSavesInPlace ==
    [][HandleSaveProduct =>
          LET editingId == productForm.editingId
          IN  /\ editingId # 0 =>
                    /\ Len(products') = Len(products)
                    /\ ProductIds(products') = ProductIds(products)
                    /\ products' = EditedProducts(products, editingId,
                                                  Trim(productForm.name),
                                                  StrToNat(productForm.price),
                                                  productForm.tagId)
              /\ Len(products') > Len(products) => editingId = 0
    ]_vars

\* C25: no two products of the catalog carry the same name once the names are
\* trimmed and put in lower case.
C25_NoDuplicateNames ==
    \A i, j \in 1..Len(products) :
        i # j => NormalizedName(products[i].name) # NormalizedName(products[j].name)

-----------------------------------------------------------------------------
(* Claims about the months the smart import writes *)

\* The amount a row holds in a month, 0 where the array has no entry
AmountAt(item, m) == IF m \in DOMAIN item.amounts.at THEN item.amounts.at[m] ELSE 0

-----------------------------------------------------------------------------
(* Claims about the pending auto-save and the operations saved at once *)

\* C27: when the timer of a pending auto-save fires, the ledger it passes to onUpdate
\* still holds what the operations saved at once since the timer was set have stored:
\* the rows of the selected year are the same rows after the callback as before it (a
\* row added meanwhile is present, a row deleted meanwhile is absent).
C27_AutoSaveKeepsImmediateRows ==
    [][AutoSaveFire => ItemIds(currentYearData') = ItemIds(currentYearData)]_vars

-----------------------------------------------------------------------------
(* Claims about the wealth figures of the Dashboard *)

\* C28: currentLiquidWealth is the actual balance of the projection at the reference
\* month, the current month when the current year is shown and December when another
\* year is shown; closedMonthsWealth is, when the current year is shown, the actual
\* balance at the close of the month before the current one (the opening balance in
\* January) and, when another year is shown, the actual balance of December as well.
C28_WealthEqualsActualBalance ==
    LET points == projectionData
        liquid == Val(RatOfInt(currentLiquidWealth))
        closed == Val(RatOfInt(closedMonthsWealth))
    IN  /\ Len(points) = MonthsPerYear
        /\ isCurrentYear =>
              /\ liquid = points[currentMonthIndex + 1].actual
              /\ closed = (IF currentMonthIndex = 0 THEN Val(RatOfInt(baseBalance))
                           ELSE points[currentMonthIndex].actual)
        /\ ~isCurrentYear =>
              /\ liquid = points[MonthsPerYear].actual
              /\ closed = points[MonthsPerYear].actual

\* The current year in June, after a quick-add changed the savings of the month: the
\* two figures differ, and both differ from the opening balance
C28_Witness ==
    /\ selectedYear = CurrentYear
    /\ currentMonthIndex = 5
    /\ ops > 0
    /\ data # ProjectionExpenses
    /\ currentLiquidWealth # closedMonthsWealth
    /\ closedMonthsWealth # baseBalance
    /\ Val(RatOfInt(closedMonthsWealth)) = projectionData[5].actual

-----------------------------------------------------------------------------
(* Claims about the rates the Dashboard holds *)

\* Every call of the service has been answered
AllResolved == \A y \in RequestYears : inflationRequests[y] = 0

\* C29: once the year has changed and every call of getMonthlyInflation has been
\* answered, inflationRates are the rates returned for the selected year.
C29_RatesOfSelectedYear ==
    (ops > 0 /\ AllResolved) => inflationRates = ServiceRates(selectedYear)

-----------------------------------------------------------------------------
(* Claims about the denominator of the variation *)

\* Every monthly rate loaded is greater than -100 %
RatesAboveMinus100 == \A m \in 1..Len(inflationRates) : inflationRates[m] > -100

\* C30: every point of the price history of a product carries a unit price that is a
\* number other than 0 (a stored or parsed price of 0 admits no point); when every
\* monthly rate loaded is greater than -100 %, its real price is a number other than
\* 0 as well, and every product the report computes a variation for has a first real
\* price other than 0 and a finite variation.
C30_NoZeroDenominator ==
    viewMode = "analysis" =>
        \A i \in 1..Len(products) :
            LET h == getProductHistory(products[i])
                item == ReportItem(products[i])
            IN  /\ \A j \in 1..Len(h) : IsFinite(h[j].price) /\ h[j].price.n # 0
                /\ RatesAboveMinus100 =>
                       /\ \A j \in 1..Len(h) :
                              IsFinite(h[j].realPrice) /\ h[j].realPrice.n # 0
                       /\ ~item.isNull =>
                              /\ item.v.firstRealPrice = h[1].realPrice
                              /\ item.v.firstRealPrice.n # 0
                              /\ IsFinite(item.v.variation)

\* The report of October, with rates above -100 % loaded, holds a product whose
\* first price was brought to October, and a dated purchase of a product of the
\* catalog stored with a price of 0 is in the ledger
C30_Witness ==
    /\ viewMode = "analysis"
    /\ currentMonthIndex = 9
    /\ inflationRates # <<>>
    /\ RatesAboveMinus100
    /\ \E i \in 1..Len(products) :
           LET item == ReportItem(products[i])
               h == getProductHistory(products[i])
           IN  ~item.isNull /\ item.v.firstRealPrice # h[1].price
    /\ \E i \in 1..Len(products), slot \in TransactionSlots :
           LET t == TransactionAt(slot)
           IN  /\ "productId" \in DOMAIN t
               /\ t.productId = products[i].id
               /\ "date" \in DOMAIN t
               /\ "unitPrice" \in DOMAIN t
               /\ t.unitPrice = 0

====
